---- MODULE Spec2Model ----
(***************************************************************************)
(* A model of the Monkey interpreter of RielJ/go_interpreter: the lexer    *)
(* (lexer/lexer.go), the Pratt parser (parser/parser.go), the AST printer  *)
(* (ast) and the tree-walking evaluator (evaluator/evaluator.go).          *)
(*                                                                         *)
(* Source text is a string; the character "@" stands for the byte 0 (NUL). *)
(* Go indices are kept 0-based as in the code: input[i] is At(input, i)    *)
(* and input[a:b] is Slice(input, a, b).  A nil interface is the node Nil  *)
(* (or the value NilObj), a nil *ast.LetStatement stored in an             *)
(* ast.Statement is TypedNilLet, and a Go run-time panic is the value      *)
(* PanicObj (or the string PanicStr for String()).                         *)
(***************************************************************************)
EXTENDS Integers, Sequences, FiniteSets, TLC

VARIABLES src,      \* the input string handed to lexer.New
          pc,       \* position of the driver: "lex", "parse", "eval", "apply", "done"
          lx,       \* the Lexer of the token-by-token specification
          toks,     \* the tokens NextToken has returned so far
          parsed,   \* the Parser after ParseProgram together with its Program
          out       \* the evaluator's result

vars == <<src, pc, lx, toks, parsed, out>>

(***************************************************************************)
(* Bounds of the model.                                                    *)
(***************************************************************************)
MaxIters == 24
MaxTokLen == 3      \* number of tokens of the enumerated parser inputs
MaxOperands == 4    \* operands of the enumerated operator expressions
MaxAtoms == 2       \* operands of the expressions with prefix, call, index and group
MaxStmts == 2       \* statements of the enumerated programs for the evaluator
MaxPairs == 2       \* pairs of a hash literal
MaxInt == 5         \* absolute value of the integer operands
MaxElems == 3       \* elements of the arrays that are indexed
MaxExtraCalls == 2  \* calls of NextToken beyond the length of the input
MaxChars == 4       \* characters of the enumerated lexer inputs
MaxDigits == 3      \* digits of the enumerated integer literals
MaxLines == 3       \* lines evaluated one after the other on one environment

NUL == "@"

(***************************************************************************)
(* Small helpers.                                                          *)
(***************************************************************************)
At(input, i) == SubSeq(input, i + 1, i + 1)
Slice(input, a, b) == SubSeq(input, a + 1, b)

RECURSIVE Concat(_)
Concat(strs) == IF strs = <<>> THEN "" ELSE Head(strs) \o Concat(Tail(strs))

Only(S) == CHOOSE y \in S : TRUE

RECURSIVE Join(_, _)
Join(strs, sep) ==
  IF strs = <<>> THEN ""
  ELSE IF Len(strs) = 1 THEN strs[1]
  ELSE strs[1] \o sep \o Join(Tail(strs), sep)

RECURSIVE SeqsUpTo(_, _)
SeqsUpTo(S, n) ==
  IF n = 0 THEN {<<>>}
  ELSE LET shorter == SeqsUpTo(S, n - 1)
       IN shorter \cup {Append(s, x) : s \in {t \in shorter : Len(t) = n - 1}, x \in S}

(***************************************************************************)
(* token: the keyword table.                                               *)
(***************************************************************************)
LookupIdent(ident) ==
  CASE ident = "fn" -> "FUNCTION"
    [] ident = "let" -> "LET"
    [] ident = "true" -> "TRUE"
    [] ident = "false" -> "FALSE"
    [] ident = "if" -> "IF"
    [] ident = "else" -> "ELSE"
    [] ident = "return" -> "RETURN"
    [] OTHER -> "IDENT"

(***************************************************************************)
(* lexer/lexer.go                                                          *)
(***************************************************************************)
Letters == {"a", "b", "c", "d", "e", "f", "g", "h", "i", "j", "k", "l", "m",
            "n", "o", "p", "q", "r", "s", "t", "u", "v", "w", "x", "y", "z",
            "A", "B", "F", "T", "W", "H", "M", "_"}
Digits == {"0", "1", "2", "3", "4", "5", "6", "7", "8", "9"}

isLetter(ch) == ch \in Letters
isDigit(ch) == ch \in Digits

newToken(tokenType, ch) == [Type |-> tokenType, Literal |-> ch]

readChar(l) ==
  [l EXCEPT !.ch = IF l.readPosition >= Len(l.input) THEN NUL
                   ELSE At(l.input, l.readPosition),
            !.position = l.readPosition,
            !.readPosition = l.readPosition + 1]

\* a lexer that looks at the current character instead of the next one
peekChar_Current(l) == l.ch

peekChar(l) ==
  IF l.readPosition >= Len(l.input) THEN NUL ELSE At(l.input, l.readPosition)

RECURSIVE skipWhitespace(_)
skipWhitespace(l) ==
  IF l.ch = " " \/ l.ch = "\t" \/ l.ch = "\n" \/ l.ch = "\r"
  THEN skipWhitespace(readChar(l))
  ELSE l

RECURSIVE readWhile(_, _)
readWhile(l, Set) == IF l.ch \in Set THEN readWhile(readChar(l), Set) ELSE l

\* both return the lexer after the scan and the text scanned
readNumber(l) ==
  Only({ [l |-> l1, lit |-> Slice(l.input, l.position, l1.position)]
         : l1 \in {readWhile(l, Digits)} })

readIdentifier(l) ==
  Only({ [l |-> l1, lit |-> Slice(l.input, l.position, l1.position)]
         : l1 \in {readWhile(l, Letters)} })

RECURSIVE readStringLoop(_)
readStringLoop(l) ==
  Only({ IF l1.ch = "\"" \/ l1.ch = NUL THEN l1 ELSE readStringLoop(l1)
         : l1 \in {readChar(l)} })

readString(l) ==
  Only({ [l |-> l1, lit |-> Slice(l.input, l.position + 1, l1.position)]
         : l1 \in {readStringLoop(l)} })

SingleCharType(ch) ==
  CASE ch = ";" -> "SEMICOLON"
    [] ch = "+" -> "PLUS"
    [] ch = "-" -> "MINUS"
    [] ch = "{" -> "LBRACE"
    [] ch = "}" -> "RBRACE"
    [] ch = "/" -> "SLASH"
    [] ch = "*" -> "ASTERISK"
    [] ch = "<" -> "LT"
    [] ch = ">" -> "GT"
    [] ch = "(" -> "LPAREN"
    [] ch = ")" -> "RPAREN"
    [] ch = "," -> "COMMA"
    [] ch = "[" -> "LBRACKET"
    [] ch = "]" -> "RBRACKET"
    [] ch = ":" -> "COLON"
    [] OTHER -> "ILLEGAL"

\* the switch of NextToken, on the lexer after skipWhitespace
NextTokenSwitch(l) ==
  CASE l.ch = "=" ->
         IF peekChar(l) = "="
         THEN Only({ [l |-> readChar(l1), tok |-> [Type |-> "EQ", Literal |-> l.ch \o l1.ch]]
                     : l1 \in {readChar(l)} })
         ELSE [l |-> readChar(l), tok |-> newToken("ASSIGN", l.ch)]
    [] l.ch = "!" ->
         IF peekChar(l) = "="
         THEN Only({ [l |-> readChar(l1), tok |-> [Type |-> "NOT_EQ", Literal |-> l.ch \o l1.ch]]
                     : l1 \in {readChar(l)} })
         ELSE [l |-> readChar(l), tok |-> newToken("BANG", l.ch)]
    [] l.ch = "\"" ->
         Only({ [l |-> readChar(r.l), tok |-> [Type |-> "STRING", Literal |-> r.lit]]
                : r \in {readString(l)} })
    [] l.ch = NUL ->
         [l |-> readChar(l), tok |-> [Type |-> "EOF", Literal |-> ""]]
    [] OTHER ->
         IF SingleCharType(l.ch) # "ILLEGAL"
         THEN [l |-> readChar(l), tok |-> newToken(SingleCharType(l.ch), l.ch)]
         ELSE IF isLetter(l.ch)
         THEN Only({ [l |-> r.l, tok |-> [Type |-> LookupIdent(r.lit), Literal |-> r.lit]]
                     : r \in {readIdentifier(l)} })
         ELSE IF isDigit(l.ch)
         THEN Only({ [l |-> r.l, tok |-> [Type |-> "INT", Literal |-> r.lit]]
                     : r \in {readNumber(l)} })
         ELSE [l |-> readChar(l), tok |-> newToken("ILLEGAL", l.ch)]

\* returns the lexer after the call and the token
NextToken(l) == NextTokenSwitch(skipWhitespace(l))

LexerNew(input) ==
  readChar([input |-> input, position |-> 0, readPosition |-> 0, ch |-> NUL])

(***************************************************************************)
(* ast: the nodes.  A node is a record with a field kind; Nil is the nil   *)
(* interface and TypedNilLet the nil *ast.LetStatement that parseStatement *)
(* converts to a non-nil ast.Statement.  A nil slice is the empty          *)
(* sequence.  HashLiteral.Pairs, a Go map keyed by the key node, is the    *)
(* sequence of its entries in insertion order.                             *)
(***************************************************************************)
Nil == [kind |-> "nil"]
TypedNilLet == [kind |-> "(*ast.LetStatement)(nil)"]

MkIdentifier(tok) == [kind |-> "Identifier", Token |-> tok, Value |-> tok.Literal]

(***************************************************************************)
(* parser/parser.go                                                        *)
(***************************************************************************)
LOWEST == 1
EQUALS == 2
LESSGREATER == 3
SUM == 4
PRODUCT == 5
PREFIX == 6
CALL == 7
INDEX == 8

PrecedenceKeys ==
  {"EQ", "NOT_EQ", "LT", "GT", "PLUS", "MINUS", "SLASH", "ASTERISK", "LPAREN", "LBRACKET"}

precedences(t) ==
  CASE t \in {"EQ", "NOT_EQ"} -> EQUALS
    [] t \in {"LT", "GT"} -> LESSGREATER
    [] t \in {"PLUS", "MINUS"} -> SUM
    [] t \in {"SLASH", "ASTERISK"} -> PRODUCT
    [] t = "LPAREN" -> CALL
    [] t = "LBRACKET" -> INDEX

\* the keys of prefixParseFns and infixParseFns registered by New
PrefixKeys ==
  {"TRUE", "FALSE", "LPAREN", "IF", "FUNCTION", "IDENT", "INT", "BANG", "MINUS",
   "STRING", "LBRACKET", "LBRACE"}
InfixKeys ==
  {"PLUS", "MINUS", "SLASH", "ASTERISK", "EQ", "NOT_EQ", "LT", "GT", "LPAREN", "LBRACKET"}

\* p.ntok counts the calls of nextToken: the parser's cursor in the token stream
nextToken(p) ==
  Only({ [p EXCEPT !.curToken = p.peekToken, !.peekToken = r.tok, !.l = r.l, !.ntok = @ + 1]
         : r \in {NextToken(p.l)} })

curTokenIs(p, t) == p.curToken.Type = t
peekTokenIs(p, t) == p.peekToken.Type = t

peekError(p, t) ==
  [p EXCEPT !.errors = Append(@, "expected next token to be " \o t \o ", got "
                                    \o p.peekToken.Type \o " instead")]

\* returns the parser and the boolean result
expectPeek(p, t) ==
  IF peekTokenIs(p, t) THEN [p |-> nextToken(p), ok |-> TRUE]
  ELSE [p |-> peekError(p, t), ok |-> FALSE]

curPrecedence(p) ==
  IF p.curToken.Type \in PrecedenceKeys THEN precedences(p.curToken.Type) ELSE LOWEST

peekPrecedence(p) ==
  IF p.peekToken.Type \in PrecedenceKeys THEN precedences(p.peekToken.Type) ELSE LOWEST

noPrefixParseFnError(p, t) ==
  [p EXCEPT !.errors = Append(@, "no prefix parse function for " \o t \o " found")]

\* One iteration of a loop of the parser has ended: it began at cursor
\* `before`, and `left` tells whether it left the loop (return or break).
LogIter(p, name, before, left) ==
  [p EXCEPT !.iters = Append(@, [loop |-> name, before |-> before,
                                 after |-> p.ntok, left |-> left]),
            !.fuel = @ - 1]

\* the bound MaxIters cut a loop short
Stuck(p) == [p EXCEPT !.stuck = TRUE]

\* strconv.ParseInt(s, 0, 64) on a string of digits: base 0 reads a leading
\* "0" as the octal prefix, and a value above the largest int64 is an error.
DigitVal(d) ==
  CASE d = "0" -> 0 [] d = "1" -> 1 [] d = "2" -> 2 [] d = "3" -> 3 [] d = "4" -> 4
    [] d = "5" -> 5 [] d = "6" -> 6 [] d = "7" -> 7 [] d = "8" -> 8 [] d = "9" -> 9

RECURSIVE DigitsValue(_, _, _)
DigitsValue(ds, base, acc) ==
  IF ds = "" THEN acc ELSE DigitsValue(Tail(ds), base, acc * base + DigitVal(Head(ds)))

\* ds without its leading zeros
RECURSIVE Significant(_)
Significant(ds) ==
  IF Len(ds) > 0 /\ SubSeq(ds, 1, 1) = "0" THEN Significant(SubSeq(ds, 2, Len(ds))) ELSE ds

\* the digit string a denotes a larger number than the digit string b; neither
\* has a leading zero
RECURSIVE Above(_, _)
Above(a, b) ==
  IF Len(a) # Len(b) THEN Len(a) > Len(b)
  ELSE IF Len(a) = 0 THEN FALSE
  ELSE IF SubSeq(a, 1, 1) # SubSeq(b, 1, 1)
       THEN DigitVal(SubSeq(a, 1, 1)) > DigitVal(SubSeq(b, 1, 1))
       ELSE Above(SubSeq(a, 2, Len(a)), SubSeq(b, 2, Len(b)))

\* 1<<63 - 1 in base 10 and in base 8
MaxInt64 == "9223372036854775807"
MaxInt64Octal == "777777777777777777777"

ParseInt(ds) ==
  IF Len(ds) > 1 /\ Head(ds) = "0"
  THEN IF \E i \in 1..(Len(ds) - 1) : DigitVal(At(ds, i)) >= 8
       THEN [ok |-> FALSE, value |-> 0]
       ELSE IF Above(Significant(ds), MaxInt64Octal)
       THEN [ok |-> FALSE, value |-> 0]
       ELSE [ok |-> TRUE, value |-> DigitsValue(Tail(ds), 8, 0)]
  ELSE IF Above(ds, MaxInt64)
  THEN [ok |-> FALSE, value |-> 0]
  ELSE [ok |-> TRUE, value |-> DigitsValue(ds, 10, 0)]

\* hash.Pairs[key] = value: node keys are pointers, so only the nil key can
\* already be present
MapPut(pairs, key, value) ==
  IF key = Nil /\ \E i \in 1..Len(pairs) : pairs[i].key = Nil
  THEN [i \in 1..Len(pairs) |->
          IF pairs[i].key = Nil THEN [key |-> key, value |-> value] ELSE pairs[i]]
  ELSE Append(pairs, [key |-> key, value |-> value])

RECURSIVE parseExpression(_, _), parseExpressionLoop(_, _, _), parseStatement(_),
          parseBlockStatement(_), parseBlockLoop(_, _), parseHashLoop(_, _),
          parseExpressionList(_, _), parseExpressionListLoop(_, _)

\* Every parse function returns the parser after the call (p) and the node,
\* list or flag it returns (n).  Only({e : x \in {v}}) is e with x bound to
\* the value v: the statement x := v followed by e.

parseIdentifier(p) == [p |-> p, n |-> MkIdentifier(p.curToken)]

parseBoolean(p) ==
  [p |-> p, n |-> [kind |-> "Boolean", Token |-> p.curToken, Value |-> curTokenIs(p, "TRUE")]]

parseStringLiteral(p) ==
  [p |-> p, n |-> [kind |-> "StringLiteral", Token |-> p.curToken, Value |-> p.curToken.Literal]]

parseIntegerLiteral(p) ==
  Only({
    IF ~r.ok
    THEN [p |-> [p EXCEPT !.errors = Append(@, "could not parse \"" \o p.curToken.Literal
                                                  \o "\" as integer")],
          n |-> Nil]
    ELSE [p |-> p, n |-> [kind |-> "IntegerLiteral", Token |-> p.curToken, Value |-> r.value]]
    : r \in {ParseInt(p.curToken.Literal)} })

parseGroupedExpression(p) ==
  Only({ Only({
    IF ~e.ok THEN [p |-> e.p, n |-> Nil] ELSE [p |-> e.p, n |-> r.n]
    : e \in {expectPeek(r.p, "RPAREN")} })
    : r \in {parseExpression(nextToken(p), LOWEST)} })

\* the operand of a prefix operator parsed at LOWEST
parsePrefixExpression_Lowest(p) ==
  Only({
    [p |-> r.p, n |-> [kind |-> "PrefixExpression", Token |-> p.curToken,
                       Operator |-> p.curToken.Literal, Right |-> r.n]]
    : r \in {parseExpression(nextToken(p), LOWEST)} })

parsePrefixExpression(p) ==
  Only({
    [p |-> r.p, n |-> [kind |-> "PrefixExpression", Token |-> p.curToken,
                       Operator |-> p.curToken.Literal, Right |-> r.n]]
    : r \in {parseExpression(nextToken(p), PREFIX)} })

\* the right operand parsed one level lower: operators associate to the right
parseInfixExpression_RightAssoc(p, left) ==
  Only({
    [p |-> r.p, n |-> [kind |-> "InfixExpression", Token |-> p.curToken, Left |-> left,
                       Operator |-> p.curToken.Literal, Right |-> r.n]]
    : r \in {parseExpression(nextToken(p), curPrecedence(p) - 1)} })

parseInfixExpression(p, left) ==
  Only({
    [p |-> r.p, n |-> [kind |-> "InfixExpression", Token |-> p.curToken, Left |-> left,
                       Operator |-> p.curToken.Literal, Right |-> r.n]]
    : r \in {parseExpression(nextToken(p), curPrecedence(p))} })

parseIndexExpression(p, left) ==
  Only({ Only({
    IF ~e.ok THEN [p |-> e.p, n |-> Nil]
    ELSE [p |-> e.p, n |-> [kind |-> "IndexExpression", Token |-> p.curToken,
                            Left |-> left, Index |-> r.n]]
    : e \in {expectPeek(r.p, "RBRACKET")} })
    : r \in {parseExpression(nextToken(p), LOWEST)} })

\* the loop of parseExpressionList; n is the list
parseExpressionListLoop(p, list) ==
  IF ~peekTokenIs(p, "COMMA") THEN [p |-> p, n |-> list]
  ELSE IF p.fuel = 0 THEN [p |-> Stuck(p), n |-> list]
  ELSE Only({
    parseExpressionListLoop(LogIter(r.p, "parseExpressionList", p.ntok, FALSE),
                            Append(list, r.n))
    : r \in {parseExpression(nextToken(nextToken(p)), LOWEST)} })

\* n is the list, the empty sequence for the nil slice
parseExpressionList(p, end) ==
  IF peekTokenIs(p, end) THEN [p |-> nextToken(p), n |-> <<>>]
  ELSE Only({ Only({ Only({
    IF ~e.ok THEN [p |-> e.p, n |-> <<>>] ELSE [p |-> e.p, n |-> r.n]
    : e \in {expectPeek(r.p, end)} })
    : r \in {parseExpressionListLoop(first.p, <<first.n>>)} })
    : first \in {parseExpression(nextToken(p), LOWEST)} })

parseArrayLiteral(p) ==
  Only({
    [p |-> r.p, n |-> [kind |-> "ArrayLiteral", Token |-> p.curToken, Elements |-> r.n]]
    : r \in {parseExpressionList(p, "RBRACKET")} })

parseCallExpression(p, function) ==
  Only({
    [p |-> r.p, n |-> [kind |-> "CallExpression", Token |-> p.curToken,
                       Function |-> function, Arguments |-> r.n]]
    : r \in {parseExpressionList(p, "RPAREN")} })

\* the end of an iteration of parseHashLiteral's loop, after the value
parseHashLoopEnd(p, value, pairs1) ==
  IF peekTokenIs(value.p, "RBRACE")
  THEN [p |-> LogIter(value.p, "parseHashLiteral", p.ntok, FALSE), n |-> pairs1, ok |-> TRUE,
        again |-> TRUE]
  ELSE Only({
    IF ~comma.ok
    THEN [p |-> LogIter(comma.p, "parseHashLiteral", p.ntok, TRUE), n |-> pairs1,
          ok |-> FALSE, again |-> FALSE]
    ELSE [p |-> LogIter(comma.p, "parseHashLiteral", p.ntok, FALSE), n |-> pairs1,
          ok |-> TRUE, again |-> TRUE]
    : comma \in {expectPeek(value.p, "COMMA")} })

\* the loop of parseHashLiteral; n is hash.Pairs, and ok is FALSE when the
\* loop returned nil
parseHashLoop(p, pairs) ==
  IF peekTokenIs(p, "RBRACE") THEN [p |-> p, n |-> pairs, ok |-> TRUE]
  ELSE IF p.fuel = 0 THEN [p |-> Stuck(p), n |-> pairs, ok |-> TRUE]
  ELSE Only({ Only({
    IF ~colon.ok
    THEN [p |-> LogIter(colon.p, "parseHashLiteral", p.ntok, TRUE), n |-> pairs, ok |-> FALSE]
    ELSE Only({ Only({
      IF it.again THEN parseHashLoop(it.p, it.n) ELSE [p |-> it.p, n |-> it.n, ok |-> it.ok]
      : it \in {parseHashLoopEnd(p, value, MapPut(pairs, key.n, value.n))} })
      : value \in {parseExpression(nextToken(colon.p), LOWEST)} })
    : colon \in {expectPeek(key.p, "COLON")} })
    : key \in {parseExpression(nextToken(p), LOWEST)} })

parseHashLiteral(p) ==
  Only({
    IF ~r.ok THEN [p |-> r.p, n |-> Nil]
    ELSE Only({
      IF ~e.ok THEN [p |-> e.p, n |-> Nil]
      ELSE [p |-> e.p, n |-> [kind |-> "HashLiteral", Token |-> p.curToken, Pairs |-> r.n]]
      : e \in {expectPeek(r.p, "RBRACE")} })
    : r \in {parseHashLoop(p, <<>>)} })

RECURSIVE parseFunctionParametersLoop(_, _)
parseFunctionParametersLoop(p, identifiers) ==
  IF ~peekTokenIs(p, "COMMA") THEN [p |-> p, n |-> identifiers]
  ELSE IF p.fuel = 0 THEN [p |-> Stuck(p), n |-> identifiers]
  ELSE Only({
    parseFunctionParametersLoop(LogIter(p2, "parseFunctionParameters", p.ntok, FALSE),
                                Append(identifiers, MkIdentifier(p2.curToken)))
    : p2 \in {nextToken(nextToken(p))} })

\* n is the list, the empty sequence for the nil slice
parseFunctionParameters(p) ==
  IF peekTokenIs(p, "RPAREN") THEN [p |-> nextToken(p), n |-> <<>>]
  ELSE Only({ Only({ Only({
    IF ~e.ok THEN [p |-> e.p, n |-> <<>>] ELSE [p |-> e.p, n |-> r.n]
    : e \in {expectPeek(r.p, "RPAREN")} })
    : r \in {parseFunctionParametersLoop(p1, <<MkIdentifier(p1.curToken)>>)} })
    : p1 \in {nextToken(p)} })

\* the loop of parseBlockStatement; n is block.Statements
parseBlockLoop(p, statements) ==
  IF ~(~curTokenIs(p, "RBRACE") /\ ~curTokenIs(p, "EOF")) THEN [p |-> p, n |-> statements]
  ELSE IF p.fuel = 0 THEN [p |-> Stuck(p), n |-> statements]
  ELSE Only({
    parseBlockLoop(LogIter(nextToken(r.p), "parseBlockStatement", p.ntok, FALSE),
                   IF r.n # Nil THEN Append(statements, r.n) ELSE statements)
    : r \in {parseStatement(p)} })

parseBlockStatement(p) ==
  Only({
    [p |-> r.p, n |-> [kind |-> "BlockStatement", Token |-> p.curToken, Statements |-> r.n]]
    : r \in {parseBlockLoop(nextToken(p), <<>>)} })

\* parseIfExpression from the consequence on; tok is the `if` token
parseIfBlocks(p, tok, condition) ==
  Only({
    IF ~peekTokenIs(cons.p, "ELSE")
    THEN [p |-> cons.p, n |-> [kind |-> "IfExpression", Token |-> tok, Condition |-> condition,
                               Consequence |-> cons.n, Alternative |-> Nil]]
    ELSE Only({
      IF ~e4.ok THEN [p |-> e4.p, n |-> Nil]
      ELSE Only({
        [p |-> alt.p, n |-> [kind |-> "IfExpression", Token |-> tok, Condition |-> condition,
                             Consequence |-> cons.n, Alternative |-> alt.n]]
        : alt \in {parseBlockStatement(e4.p)} })
      : e4 \in {expectPeek(nextToken(cons.p), "LBRACE")} })
    : cons \in {parseBlockStatement(p)} })

parseIfExpression(p) ==
  Only({
    IF ~e1.ok THEN [p |-> e1.p, n |-> Nil]
    ELSE Only({ Only({
      IF ~e2.ok THEN [p |-> e2.p, n |-> Nil]
      ELSE Only({
        IF ~e3.ok THEN [p |-> e3.p, n |-> Nil]
        ELSE parseIfBlocks(e3.p, p.curToken, cond.n)
        : e3 \in {expectPeek(e2.p, "LBRACE")} })
      : e2 \in {expectPeek(cond.p, "RPAREN")} })
      : cond \in {parseExpression(nextToken(e1.p), LOWEST)} })
    : e1 \in {expectPeek(p, "LPAREN")} })

parseFunctionLiteral(p) ==
  Only({
    IF ~e1.ok THEN [p |-> e1.p, n |-> Nil]
    ELSE Only({ Only({
      IF ~e2.ok THEN [p |-> e2.p, n |-> Nil]
      ELSE Only({
        [p |-> body.p, n |-> [kind |-> "FunctionLiteral", Token |-> p.curToken,
                              Parameters |-> params.n, Body |-> body.n]]
        : body \in {parseBlockStatement(e2.p)} })
      : e2 \in {expectPeek(params.p, "LBRACE")} })
      : params \in {parseFunctionParameters(e1.p)} })
    : e1 \in {expectPeek(p, "LPAREN")} })

\* prefixParseFns[p.curToken.Type](), for a type in PrefixKeys
prefixParse(p) ==
  CASE p.curToken.Type \in {"TRUE", "FALSE"} -> parseBoolean(p)
    [] p.curToken.Type = "LPAREN" -> parseGroupedExpression(p)
    [] p.curToken.Type = "IF" -> parseIfExpression(p)
    [] p.curToken.Type = "FUNCTION" -> parseFunctionLiteral(p)
    [] p.curToken.Type = "IDENT" -> parseIdentifier(p)
    [] p.curToken.Type = "INT" -> parseIntegerLiteral(p)
    [] p.curToken.Type \in {"BANG", "MINUS"} -> parsePrefixExpression(p)
    [] p.curToken.Type = "STRING" -> parseStringLiteral(p)
    [] p.curToken.Type = "LBRACKET" -> parseArrayLiteral(p)
    [] p.curToken.Type = "LBRACE" -> parseHashLiteral(p)

\* infixParseFns[p.curToken.Type](left), for a type in InfixKeys
infixParse(p, left) ==
  CASE p.curToken.Type = "LPAREN" -> parseCallExpression(p, left)
    [] p.curToken.Type = "LBRACKET" -> parseIndexExpression(p, left)
    [] OTHER -> parseInfixExpression(p, left)

\* the loop of parseExpression
parseExpressionLoop(p, leftExp, precedence) ==
  IF ~(~peekTokenIs(p, "SEMICOLON") /\ precedence < peekPrecedence(p))
  THEN [p |-> p, n |-> leftExp]
  ELSE IF p.fuel = 0 THEN [p |-> Stuck(p), n |-> leftExp]
  ELSE IF p.peekToken.Type \notin InfixKeys
  THEN [p |-> LogIter(p, "parseExpression", p.ntok, TRUE), n |-> leftExp]
  ELSE Only({
    parseExpressionLoop(LogIter(r.p, "parseExpression", p.ntok, FALSE), r.n, precedence)
    : r \in {infixParse(nextToken(p), leftExp)} })

parseExpression(p, precedence) ==
  IF p.curToken.Type \notin PrefixKeys
  THEN [p |-> noPrefixParseFnError(p, p.curToken.Type), n |-> Nil]
  ELSE Only({ parseExpressionLoop(r.p, r.n, precedence) : r \in {prefixParse(p)} })

\* p after the optional semicolon
SkipSemicolon(p) == IF peekTokenIs(p, "SEMICOLON") THEN nextToken(p) ELSE p

\* n is TypedNilLet where the code returns a nil *ast.LetStatement
parseLetStatement(p) ==
  Only({
    IF ~e1.ok THEN [p |-> e1.p, n |-> TypedNilLet]
    ELSE Only({
      IF ~e2.ok THEN [p |-> e2.p, n |-> TypedNilLet]
      ELSE Only({
        [p |-> SkipSemicolon(r.p),
         n |-> [kind |-> "LetStatement", Token |-> p.curToken,
                Name |-> MkIdentifier(e1.p.curToken), Value |-> r.n]]
        : r \in {parseExpression(nextToken(e2.p), LOWEST)} })
      : e2 \in {expectPeek(e1.p, "ASSIGN")} })
    : e1 \in {expectPeek(p, "IDENT")} })

parseReturnStatement(p) ==
  Only({
    [p |-> SkipSemicolon(r.p),
     n |-> [kind |-> "ReturnStatement", Token |-> p.curToken, ReturnValue |-> r.n]]
    : r \in {parseExpression(nextToken(p), LOWEST)} })

parseExpressionStatement(p) ==
  Only({
    [p |-> SkipSemicolon(r.p),
     n |-> [kind |-> "ExpressionStatement", Token |-> p.curToken, Expression |-> r.n]]
    : r \in {parseExpression(p, LOWEST)} })

\* the returned ast.Statement is never the nil interface
parseStatement(p) ==
  CASE p.curToken.Type = "LET" -> parseLetStatement(p)
    [] p.curToken.Type = "RETURN" -> parseReturnStatement(p)
    [] OTHER -> parseExpressionStatement(p)

RECURSIVE ParseProgramLoop(_, _)
\* the loop without its p.nextToken()
ParseProgramLoop_NoAdvance(p, statements) ==
  IF ~(p.curToken.Type # "EOF") THEN [p |-> p, n |-> statements]
  ELSE IF p.fuel = 0 THEN [p |-> Stuck(p), n |-> statements]
  ELSE Only({
    ParseProgramLoop(LogIter(r.p, "ParseProgram", p.ntok, FALSE),
                     IF r.n # Nil THEN Append(statements, r.n) ELSE statements)
    : r \in {parseStatement(p)} })

ParseProgramLoop(p, statements) ==
  IF ~(p.curToken.Type # "EOF") THEN [p |-> p, n |-> statements]
  ELSE IF p.fuel = 0 THEN [p |-> Stuck(p), n |-> statements]
  ELSE Only({
    ParseProgramLoop(LogIter(nextToken(r.p), "ParseProgram", p.ntok, FALSE),
                     IF r.n # Nil THEN Append(statements, r.n) ELSE statements)
    : r \in {parseStatement(p)} })

\* n is the Program
ParseProgram(p) ==
  Only({ [p |-> r.p, n |-> [kind |-> "Program", Statements |-> r.n]]
         : r \in {ParseProgramLoop(p, <<>>)} })

\* parser.New(l)
New(l) ==
  nextToken(nextToken([l |-> l, errors |-> <<>>,
                       curToken |-> [Type |-> "", Literal |-> ""],
                       peekToken |-> [Type |-> "", Literal |-> ""],
                       ntok |-> 0, iters |-> <<>>, fuel |-> MaxIters, stuck |-> FALSE]))

\* lexer.New, parser.New and ParseProgram on the input
Parse(input) == ParseProgram(New(LexerNew(input)))

(***************************************************************************)
(* ast: String().  A call on a nil node panics: the result is PanicStr.    *)
(***************************************************************************)
PanicStr == "<panic: nil pointer dereference>"

Cat(parts) ==
  IF \E i \in 1..Len(parts) : parts[i] = PanicStr THEN PanicStr ELSE Concat(parts)

JoinCat(parts, sep) ==
  IF \E i \in 1..Len(parts) : parts[i] = PanicStr THEN PanicStr ELSE Join(parts, sep)

RECURSIVE String(_)
String(n) ==
  LET Strings(nodes) == [i \in 1..Len(nodes) |-> String(nodes[i])]
      OrEmpty(e) == IF e # Nil THEN String(e) ELSE ""
  IN CASE n.kind = "Program" -> Cat(Strings(n.Statements))
       [] n.kind = "ExpressionStatement" -> OrEmpty(n.Expression)
       [] n.kind = "ReturnStatement" ->
            Cat(<<n.Token.Literal \o " ", OrEmpty(n.ReturnValue), ";">>)
       [] n.kind = "LetStatement" ->
            Cat(<<n.Token.Literal \o " ", String(n.Name), " = ", OrEmpty(n.Value), ";">>)
       [] n.kind = "Identifier" -> n.Value
       [] n.kind = "IntegerLiteral" -> n.Token.Literal
       [] n.kind = "Boolean" -> n.Token.Literal
       [] n.kind = "StringLiteral" -> n.Token.Literal
       [] n.kind = "PrefixExpression" -> Cat(<<"(", n.Operator, String(n.Right), ")">>)
       [] n.kind = "InfixExpression" ->
            Cat(<<"(", String(n.Left), " " \o n.Operator \o " ", String(n.Right), ")">>)
       [] n.kind = "IfExpression" ->
            Cat(<<"if", String(n.Condition), " ", String(n.Consequence)>>
                \o (IF n.Alternative # Nil THEN <<"else", String(n.Alternative)>> ELSE <<>>))
       [] n.kind = "BlockStatement" -> Cat(Strings(n.Statements))
       [] n.kind = "FunctionLiteral" ->
            Cat(<<n.Token.Literal, "(", JoinCat(Strings(n.Parameters), ", "), ") ",
                  String(n.Body)>>)
       [] n.kind = "CallExpression" ->
            Cat(<<String(n.Function), "(", JoinCat(Strings(n.Arguments), ", "), ")">>)
       [] n.kind = "ArrayLiteral" -> Cat(<<"[", JoinCat(Strings(n.Elements), ", "), "]">>)
       [] n.kind = "IndexExpression" ->
            Cat(<<"(", String(n.Left), "[", String(n.Index), "])">>)
       [] n.kind = "HashLiteral" ->
            Cat(<<"{", JoinCat([i \in 1..Len(n.Pairs) |->
                                  Cat(<<String(n.Pairs[i].key), ":", String(n.Pairs[i].value)>>)],
                               ", "), "}">>)
       [] OTHER -> PanicStr   \* Nil and TypedNilLet

(***************************************************************************)
(* The grouping the language definition prescribes for an operator         *)
(* expression, computed from the token list without the parser: the root   *)
(* of a token list is its last binary operator of the lowest level that    *)
(* stands outside all brackets; a list without one is a prefix operator    *)
(* applied to the rest, or an operand, or an operand followed by a call or *)
(* an index, or a parenthesised group.  Ref gives the rendering of that    *)
(* grouping, and BadRef for a token list that is no such expression.       *)
(***************************************************************************)
BadRef == "<no operator expression>"

RefLevel(t) ==
  CASE t \in {"EQ", "NOT_EQ"} -> 1
    [] t \in {"LT", "GT"} -> 2
    [] t \in {"PLUS", "MINUS"} -> 3
    [] t \in {"SLASH", "ASTERISK"} -> 4

RefBinary == {"EQ", "NOT_EQ", "LT", "GT", "PLUS", "MINUS", "SLASH", "ASTERISK"}
RefOperand == {"IDENT", "INT", "TRUE", "FALSE"}
RefOpens == {"LPAREN", "LBRACKET"}
RefCloses == {"RPAREN", "RBRACKET"}

\* the number of brackets open before position i
RefDepth(ts, i) ==
  Cardinality({j \in 1..(i - 1) : ts[j].Type \in RefOpens})
    - Cardinality({j \in 1..(i - 1) : ts[j].Type \in RefCloses})

\* the positions of the binary operators outside all brackets
RefRoots(ts) ==
  {i \in 2..Len(ts) : /\ ts[i].Type \in RefBinary
                      /\ RefDepth(ts, i) = 0
                      /\ ts[i - 1].Type \in RefOperand \cup RefCloses}

RefCat(parts) ==
  IF \E i \in 1..Len(parts) : parts[i] = BadRef THEN BadRef ELSE Concat(parts)

RefJoin(parts) ==
  IF \E i \in 1..Len(parts) : parts[i] = BadRef THEN BadRef ELSE Join(parts, ", ")

RECURSIVE Ref(_), RefList(_)

\* the renderings of the comma-separated expressions of ts
RefList(ts) ==
  LET commas == {i \in 1..Len(ts) : ts[i].Type = "COMMA" /\ RefDepth(ts, i) = 0}
  IN IF ts = <<>> THEN <<>>
     ELSE IF commas = {} THEN <<Ref(ts)>>
     ELSE LET c == CHOOSE i \in commas : \A j \in commas : i <= j
          IN <<Ref(SubSeq(ts, 1, c - 1))>> \o
               (IF c = Len(ts) THEN <<BadRef>> ELSE RefList(SubSeq(ts, c + 1, Len(ts))))

Ref(ts) ==
  LET n == Len(ts)
      roots == RefRoots(ts)
  IN IF n = 0 \/ \E i \in 1..(n + 1) : RefDepth(ts, i) < 0 THEN BadRef
     ELSE IF RefDepth(ts, n + 1) # 0 THEN BadRef
     ELSE IF roots # {}
     THEN LET low == CHOOSE i \in roots :
                       \A j \in roots : RefLevel(ts[i].Type) <= RefLevel(ts[j].Type)
              r == CHOOSE i \in roots :
                     /\ RefLevel(ts[i].Type) = RefLevel(ts[low].Type)
                     /\ \A j \in roots :
                          RefLevel(ts[j].Type) = RefLevel(ts[low].Type) => j <= i
          IN RefCat(<<"(", Ref(SubSeq(ts, 1, r - 1)), " " \o ts[r].Literal \o " ",
                      Ref(SubSeq(ts, r + 1, n)), ")">>)
     ELSE IF ts[1].Type \in {"BANG", "MINUS"}
     THEN RefCat(<<"(", ts[1].Literal, Ref(Tail(ts)), ")">>)
     ELSE IF n = 1
     THEN IF ts[1].Type \in RefOperand THEN ts[1].Literal ELSE BadRef
     ELSE IF ts[n].Type \notin RefCloses THEN BadRef
     ELSE LET m == CHOOSE i \in 1..n :
                     /\ ts[i].Type \in RefOpens /\ RefDepth(ts, i) = 0
                     /\ \A j \in (i + 1)..n :
                          ~(ts[j].Type \in RefOpens /\ RefDepth(ts, j) = 0)
              inside == SubSeq(ts, m + 1, n - 1)
              list == RefList(inside)
              before == Ref(SubSeq(ts, 1, m - 1))
          IN CASE ts[m].Type = "LPAREN" /\ ts[n].Type = "RPAREN" /\ m = 1 -> Ref(inside)
               [] ts[m].Type = "LPAREN" /\ ts[n].Type = "RPAREN" /\ m > 1 ->
                    RefCat(<<before, "(", RefJoin(list), ")">>)
               [] ts[m].Type = "LBRACKET" /\ ts[n].Type = "RBRACKET" /\ m = 1 ->
                    RefCat(<<"[", RefJoin(list), "]">>)
               [] ts[m].Type = "LBRACKET" /\ ts[n].Type = "RBRACKET" /\ m > 1 ->
                    RefCat(<<"(", before, "[", Ref(inside), "])">>)
               [] OTHER -> BadRef

\* the tokens of the input up to EOF, as NextToken delivers them
RECURSIVE TokensFrom(_)
TokensFrom(l) ==
  Only({ IF r.tok.Type = "EOF" THEN <<>> ELSE <<r.tok>> \o TokensFrom(r.l)
         : r \in {NextToken(l)} })

Tokens(input) == TokensFrom(LexerNew(input))

\* ts without its last token when that is a semicolon
DropSemicolon(ts) ==
  IF ts # <<>> /\ ts[Len(ts)].Type = "SEMICOLON" THEN SubSeq(ts, 1, Len(ts) - 1) ELSE ts

(***************************************************************************)
(* object: the runtime values.  Every object has an identity (id): the     *)
(* singletons and the built-ins have fixed ones, an object made during     *)
(* evaluation has id 0 until NewObject gives it the next free identity.    *)
(* NilObj is the nil object.Object; a panic is carried as a value that     *)
(* every caller passes on.                                                 *)
(***************************************************************************)
TrueObj == [type |-> "BOOLEAN", Value |-> TRUE, id |-> 1]
FalseObj == [type |-> "BOOLEAN", Value |-> FALSE, id |-> 2]
NULL == [type |-> "NULL", id |-> 3]
NilObj == [type |-> "nil"]

BuiltinNames == <<"len", "first", "last", "rest", "push", "puts">>
BuiltinObj(name) ==
  [type |-> "BUILTIN", name |-> name,
   id |-> 3 + (CHOOSE i \in 1..Len(BuiltinNames) : BuiltinNames[i] = name)]
FirstFreeId == 10

Integer(value) == [type |-> "INTEGER", Value |-> value, id |-> 0]
StringObj(value) == [type |-> "STRING", Value |-> value, id |-> 0]
ArrayObj(elements) == [type |-> "ARRAY", Elements |-> elements, id |-> 0]
HashObj(pairs) == [type |-> "HASH", Pairs |-> pairs, id |-> 0]
ReturnValue(value) == [type |-> "RETURN_VALUE", Value |-> value, id |-> 0]

Panic(message) == [type |-> "panic", Message |-> message]
NilDeref == Panic("invalid memory address or nil pointer dereference")
IsPanic(obj) == obj.type = "panic"

\* left == right on two object.Object values: the same object, or both nil
Same(left, right) ==
  IF left.type = "nil" \/ right.type = "nil" THEN left.type = right.type
  ELSE left.id = right.id

newError(message) == [type |-> "ERROR", Message |-> message, id |-> 0]

isError(obj) == IF obj.type # "nil" THEN obj.type = "ERROR" ELSE FALSE

\* the callers' if isError(x) { return x }, and the unwinding of a panic
Stops(obj) == isError(obj) \/ IsPanic(obj)

\* object.HashKey: the type and the value of an Integer, a Boolean or a String
Hashable(obj) == obj.type \in {"INTEGER", "BOOLEAN", "STRING"}
\* the code of a character: those before and those after the grave accent
CharsTo95 == " !\"#$%&'()*+,-./0123456789:;<=>?@ABCDEFGHIJKLMNOPQRSTUVWXYZ[\\]^_"
CharsFrom97 == "abcdefghijklmnopqrstuvwxyz{|}~"
Ord(c) ==
  IF \E i \in 1..Len(CharsTo95) : SubSeq(CharsTo95, i, i) = c
  THEN 31 + (CHOOSE i \in 1..Len(CharsTo95) : SubSeq(CharsTo95, i, i) = c)
  ELSE 96 + (CHOOSE i \in 1..Len(CharsFrom97) : SubSeq(CharsFrom97, i, i) = c)

\* a xor b on n bits
RECURSIVE XorBits(_, _, _)
XorBits(a, b, n) ==
  IF n = 0 THEN 0
  ELSE (((a % 2) + (b % 2)) % 2) + 2 * XorBits(a \div 2, b \div 2, n - 1)

\* a 64-bit hash is its 8 bytes, the lowest first.  h * 0x100000001b3 modulo
\* 2^64, from byte i on: 0x100000001b3 = 2^40 + 435
RECURSIVE FnvMul(_, _, _)
FnvMul(h, i, carry) ==
  IF i > 8 THEN <<>>
  ELSE Only({ <<t % 256>> \o FnvMul(h, i + 1, t \div 256)
              : t \in {h[i] * 435 + (IF i > 5 THEN h[i - 5] ELSE 0) + carry} })

\* 0xcbf29ce484222325
FnvOffset == <<37, 35, 34, 132, 228, 156, 242, 203>>

\* FNV-1a over the bytes of s, from the hash h
RECURSIVE Fnv1a(_, _)
Fnv1a(s, h) ==
  IF Len(s) = 0 THEN h
  ELSE Only({ Fnv1a(SubSeq(s, 2, Len(s)), next)
              : next \in {FnvMul([h EXCEPT ![1] = XorBits(h[1], Ord(SubSeq(s, 1, 1)), 8)],
                                 1, 0)} })

\* (type tag, 64-bit hash): the value of an Integer, 1 or 0 for a Boolean, the
\* FNV-1a hash of the bytes of a String
HashKey(obj) ==
  CASE obj.type = "INTEGER" -> [Type |-> obj.type, Value |-> obj.Value]
    [] obj.type = "BOOLEAN" -> [Type |-> obj.type, Value |-> IF obj.Value THEN 1 ELSE 0]
    [] obj.type = "STRING" -> [Type |-> obj.type, Value |-> Fnv1a(obj.Value, FnvOffset)]
SameKey(a, b) == a.Type = b.Type /\ a.Value = b.Value

\* pairs[hashed] = object.HashPair{Key: key, Value: value}
PairsPut(pairs, key, value) ==
  IF \E i \in 1..Len(pairs) : SameKey(HashKey(pairs[i].Key), HashKey(key))
  THEN [i \in 1..Len(pairs) |->
          IF SameKey(HashKey(pairs[i].Key), HashKey(key))
          THEN [Key |-> key, Value |-> value] ELSE pairs[i]]
  ELSE Append(pairs, [Key |-> key, Value |-> value])

\* decimal digits of an integer
RECURSIVE NatStr(_)
NatStr(n) ==
  IF n < 10 THEN SubSeq("0123456789", n + 1, n + 1)
  ELSE NatStr(n \div 10) \o SubSeq("0123456789", (n % 10) + 1, (n % 10) + 1)

IntStr(n) == IF n < 0 THEN "-" \o NatStr(-n) ELSE NatStr(n)

\* Inspect(): the string form of a value
RECURSIVE Inspect(_)
Inspect(obj) ==
  CASE obj.type = "INTEGER" -> IntStr(obj.Value)
    [] obj.type = "BOOLEAN" -> IF obj.Value THEN "true" ELSE "false"
    [] obj.type = "NULL" -> "null"
    [] obj.type = "STRING" -> obj.Value
    [] obj.type = "ARRAY" ->
         "[" \o Join([i \in 1..Len(obj.Elements) |-> Inspect(obj.Elements[i])], ", ") \o "]"
    [] obj.type = "HASH" ->
         "{" \o Join([i \in 1..Len(obj.Pairs) |->
                        Inspect(obj.Pairs[i].Key) \o ": " \o Inspect(obj.Pairs[i].Value)],
                     ", ") \o "}"
    [] obj.type = "FUNCTION" ->
         "fn(" \o Join([i \in 1..Len(obj.Parameters) |-> String(obj.Parameters[i])], ", ")
               \o ") {\n" \o String(obj.Body) \o "\n}"
    [] obj.type = "BUILTIN" -> "builtin function"
    [] obj.type = "RETURN_VALUE" -> Inspect(obj.Value)
    [] obj.type = "ERROR" -> "ERROR: " \o obj.Message
    [] OTHER -> PanicStr

(***************************************************************************)
(* object: environments.  envs is the heap of environments, an environment *)
(* is named by its index in it, and 0 is no environment.                   *)
(***************************************************************************)
NewEnvironment == [store |-> <<>>, outer |-> 0]
NewEnclosedEnvironment(outer) == [store |-> <<>>, outer |-> outer]

Has(envs, env, name) == \E i \in 1..Len(envs[env].store) : envs[env].store[i].name = name

RECURSIVE Get(_, _, _)
Get(envs, env, name) ==
  IF Has(envs, env, name)
  THEN [ok |-> TRUE,
        obj |-> envs[env].store[CHOOSE i \in 1..Len(envs[env].store) :
                                  envs[env].store[i].name = name].val]
  ELSE IF envs[env].outer # 0 THEN Get(envs, envs[env].outer, name)
  ELSE [ok |-> FALSE, obj |-> NilObj]

\* the stores of env and of the environments around it, innermost first
RECURSIVE Scopes(_, _)
Scopes(envs, env) ==
  IF env = 0 THEN <<>> ELSE <<envs[env].store>> \o Scopes(envs, envs[env].outer)

Set(envs, env, name, val) ==
  [envs EXCEPT ![env].store =
     IF Has(envs, env, name)
     THEN [i \in 1..Len(@) |-> IF @[i].name = name THEN [name |-> name, val |-> val] ELSE @[i]]
     ELSE Append(@, [name |-> name, val |-> val])]

(***************************************************************************)
(* builtins                                                                *)
(***************************************************************************)
WrongArgs(got, want) ==
  newError("wrong number of arguments. got=" \o IntStr(got) \o ", want=" \o IntStr(want))

\* the value a built-in returns; puts also writes, see applyFunction
Builtin(name, args) ==
  CASE name = "len" ->
         IF Len(args) # 1 THEN WrongArgs(Len(args), 1)
         ELSE IF args[1].type = "nil" THEN NilDeref
         ELSE IF args[1].type = "STRING" THEN Integer(Len(args[1].Value))
         ELSE IF args[1].type = "ARRAY" THEN Integer(Len(args[1].Elements))
         ELSE newError("argument to 'len' not supported, got " \o args[1].type)
    [] name \in {"first", "last", "rest"} ->
         IF Len(args) # 1 THEN WrongArgs(Len(args), 1)
         ELSE IF args[1].type = "nil" THEN NilDeref
         ELSE IF args[1].type # "ARRAY"
         THEN newError("argument to '" \o name \o "' must be ARRAY, got " \o args[1].type)
         ELSE IF args[1].Elements = <<>> THEN NULL
         ELSE IF name = "first" THEN args[1].Elements[1]
         ELSE IF name = "last" THEN args[1].Elements[Len(args[1].Elements)]
         ELSE ArrayObj(Tail(args[1].Elements))
    [] name = "push" ->
         IF Len(args) # 2 THEN WrongArgs(Len(args), 2)
         ELSE IF args[1].type = "nil" THEN NilDeref
         ELSE IF args[1].type # "ARRAY"
         THEN newError("argument to 'push' must be ARRAY, got " \o args[1].type)
         ELSE ArrayObj(Append(args[1].Elements, args[2]))
    [] name = "puts" -> NULL

(***************************************************************************)
(* evaluator: the functions on values.                                     *)
(***************************************************************************)
nativeBoolToBooleanObject(input) == IF input THEN TrueObj ELSE FalseObj

evalBangOperatorExpression(right) ==
  CASE Same(right, TrueObj) -> FalseObj
    [] Same(right, FalseObj) -> TrueObj
    [] Same(right, NULL) -> TrueObj
    [] OTHER -> FalseObj

\* right.Type() on the nil object panics
evalMinusPrefixOperatorExpression(right) ==
  IF right.type = "nil" THEN NilDeref
  ELSE IF right.type # "INTEGER" THEN newError("unknown operator: -" \o right.type)
  ELSE Integer(-right.Value)

evalPrefixExpression(operator, right) ==
  CASE operator = "!" -> evalBangOperatorExpression(right)
    [] operator = "-" -> evalMinusPrefixOperatorExpression(right)
    [] OTHER ->
         IF right.type = "nil" THEN NilDeref
         ELSE newError("unknown operator: " \o operator \o right.type)

evalStringInfixExpression(operator, left, right) ==
  IF operator # "+"
  THEN newError("unknown operator: " \o left.type \o " " \o operator \o " " \o right.type)
  ELSE StringObj(left.Value \o right.Value)

\* Go's integer division: the quotient truncated toward zero
Quo(a, b) ==
  IF (a < 0) = (b < 0)
  THEN (IF a < 0 THEN -a ELSE a) \div (IF b < 0 THEN -b ELSE b)
  ELSE -((IF a < 0 THEN -a ELSE a) \div (IF b < 0 THEN -b ELSE b))

evalIntegerInfixExpression(operator, left, right) ==
  CASE operator = "+" -> Integer(left.Value + right.Value)
    [] operator = "-" -> Integer(left.Value - right.Value)
    [] operator = "*" -> Integer(left.Value * right.Value)
    [] operator = "/" ->
         IF right.Value = 0 THEN Panic("runtime error: integer divide by zero")
         ELSE Integer(Quo(left.Value, right.Value))
    [] operator = "<" -> nativeBoolToBooleanObject(left.Value < right.Value)
    [] operator = ">" -> nativeBoolToBooleanObject(left.Value > right.Value)
    [] operator = "==" -> nativeBoolToBooleanObject(left.Value = right.Value)
    [] operator = "!=" -> nativeBoolToBooleanObject(left.Value # right.Value)
    [] OTHER ->
         newError("unknown operator: " \o left.type \o " " \o operator \o " " \o right.type)

\* the cases checked before == and !=
evalInfixExpression_MismatchFirst(operator, left, right) ==
  IF left.type = "nil" THEN NilDeref
  ELSE IF left.type = "STRING" /\ right.type = "nil" THEN NilDeref
  ELSE IF left.type = "STRING" /\ right.type = "STRING"
  THEN evalStringInfixExpression(operator, left, right)
  ELSE IF left.type = "INTEGER" /\ right.type = "nil" THEN NilDeref
  ELSE IF left.type = "INTEGER" /\ right.type = "INTEGER"
  THEN evalIntegerInfixExpression(operator, left, right)
  ELSE IF right.type = "nil" THEN NilDeref
  ELSE IF left.type # right.type
  THEN newError("type mismatch: " \o left.type \o " " \o operator \o " " \o right.type)
  ELSE IF operator = "==" THEN nativeBoolToBooleanObject(Same(left, right))
  ELSE IF operator = "!=" THEN nativeBoolToBooleanObject(~Same(left, right))
  ELSE newError("unknown operator: " \o left.type \o " " \o operator \o " " \o right.type)

\* the cases of the switch in their order; a case that calls Type() on the
\* nil object panics
evalInfixExpression(operator, left, right) ==
  IF left.type = "nil" THEN NilDeref
  ELSE IF left.type = "STRING" /\ right.type = "nil" THEN NilDeref
  ELSE IF left.type = "STRING" /\ right.type = "STRING"
  THEN evalStringInfixExpression(operator, left, right)
  ELSE IF left.type = "INTEGER" /\ right.type = "nil" THEN NilDeref
  ELSE IF left.type = "INTEGER" /\ right.type = "INTEGER"
  THEN evalIntegerInfixExpression(operator, left, right)
  ELSE IF operator = "==" THEN nativeBoolToBooleanObject(Same(left, right))
  ELSE IF operator = "!=" THEN nativeBoolToBooleanObject(~Same(left, right))
  ELSE IF right.type = "nil" THEN NilDeref
  ELSE IF left.type # right.type
  THEN newError("type mismatch: " \o left.type \o " " \o operator \o " " \o right.type)
  ELSE newError("unknown operator: " \o left.type \o " " \o operator \o " " \o right.type)

\* indexing in which a negative index counts from the end of the array
evalArrayIndexExpression_FromEnd(array, index) ==
  IF index.Value < -Len(array.Elements) \/ index.Value > Len(array.Elements) - 1 THEN NULL
  ELSE IF index.Value < 0 THEN array.Elements[Len(array.Elements) + index.Value + 1]
  ELSE array.Elements[index.Value + 1]

evalArrayIndexExpression(array, index) ==
  IF index.Value < 0 \/ index.Value > Len(array.Elements) - 1 THEN NULL
  ELSE array.Elements[index.Value + 1]

evalHashIndexExpression(hash, index) ==
  IF index.type = "nil" THEN NilDeref
  ELSE IF ~Hashable(index) THEN newError("unusable as hash key: " \o index.type)
  ELSE IF \E i \in 1..Len(hash.Pairs) : SameKey(HashKey(hash.Pairs[i].Key), HashKey(index))
  THEN hash.Pairs[CHOOSE i \in 1..Len(hash.Pairs) :
                    SameKey(HashKey(hash.Pairs[i].Key), HashKey(index))].Value
  ELSE NULL

evalIndexExpression(left, index) ==
  IF left.type = "nil" THEN NilDeref
  ELSE IF left.type = "ARRAY" /\ index.type = "nil" THEN NilDeref
  ELSE IF left.type = "ARRAY" /\ index.type = "INTEGER"
  THEN evalArrayIndexExpression(left, index)
  ELSE IF left.type = "HASH" THEN evalHashIndexExpression(left, index)
  ELSE newError("index operator not supported: " \o left.type)

\* a lookup that asks the built-in functions before the environment
evalIdentifier_BuiltinsFirst(node, env, envs) ==
  IF \E i \in 1..Len(BuiltinNames) : BuiltinNames[i] = node.Value
  THEN BuiltinObj(node.Value)
  ELSE IF Get(envs, env, node.Value).ok THEN Get(envs, env, node.Value).obj
  ELSE newError("identifier not found: " \o node.Value)

evalIdentifier(node, env, envs) ==
  IF Get(envs, env, node.Value).ok THEN Get(envs, env, node.Value).obj
  ELSE IF \E i \in 1..Len(BuiltinNames) : BuiltinNames[i] = node.Value
  THEN BuiltinObj(node.Value)
  ELSE newError("identifier not found: " \o node.Value)

\* a truth test for which the integer 0 is false as well
isTruthy_ZeroFalse(obj) ==
  IF obj.type = "INTEGER" THEN obj.Value # 0
  ELSE ~Same(obj, NULL) /\ ~Same(obj, FalseObj)

isTruthy(obj) ==
  CASE Same(obj, NULL) -> FALSE
    [] Same(obj, TrueObj) -> TRUE
    [] Same(obj, FalseObj) -> FALSE
    [] OTHER -> TRUE

unwrapReturnValue(obj) == IF obj.type = "RETURN_VALUE" THEN obj.Value ELSE obj

\* the function literal captures the environment it is evaluated in
FunctionObject_GlobalEnv(node, env) ==
  [type |-> "FUNCTION", Parameters |-> node.Parameters, Body |-> node.Body, Env |-> 1, id |-> 0]

\* a Function that keeps no environment
FunctionObject_Detached(node, env) ==
  [type |-> "FUNCTION", Parameters |-> node.Parameters, Body |-> node.Body, Env |-> 0, id |-> 0]

\* &object.Function{Parameters: node.Parameters, Body: node.Body, Env: env}
FunctionObject(node, env) ==
  [type |-> "FUNCTION", Parameters |-> node.Parameters, Body |-> node.Body, Env |-> env,
   id |-> 0]

(***************************************************************************)
(* evaluator: Eval.  The state st of an evaluation is the heap of          *)
(* environments (envs), the next free object identity (next), the output   *)
(* of puts (stdout), the order in which this run iterates over the pairs   *)
(* of a hash literal (perm), and a record of what happened: the events     *)
(* (trace), the blocks and calls being evaluated (stack, innermost last),  *)
(* and the number of blocks entered (blocks).  Every function returns the  *)
(* state after it (st) and its result (v).                                 *)
(***************************************************************************)
Emit(st, e) == [st EXCEPT !.trace = Append(@, e)]

\* gives a new object its identity
NewObject(st, obj) ==
  IF obj.type \notin {"nil", "panic"} /\ obj.id = 0
  THEN [st |-> [st EXCEPT !.next = @ + 1], v |-> [obj EXCEPT !.id = st.next]]
  ELSE [st |-> st, v |-> obj]

Push(st, frame) == [st EXCEPT !.stack = Append(@, frame)]
Pop(st) == [st EXCEPT !.stack = SubSeq(@, 1, Len(@) - 1)]
Top(st) == st.stack[Len(st.stack)]
\* the statement the innermost block or program is at
At_(st, i) == [st EXCEPT !.stack[Len(st.stack)].i = i]

\* the innermost call on the stack, 0 for the program
RECURSIVE Activation(_)
Activation(stack) ==
  IF stack = <<>> \/ stack[Len(stack)].kind = "program" THEN 0
  ELSE IF stack[Len(stack)].kind = "call" THEN stack[Len(stack)].id
  ELSE Activation(SubSeq(stack, 1, Len(stack) - 1))

\* the blocks around the current statement, up to the innermost call
RECURSIVE Enclosing(_)
Enclosing(stack) ==
  IF stack = <<>> \/ stack[Len(stack)].kind # "block" THEN {}
  ELSE {stack[Len(stack)].id} \cup Enclosing(SubSeq(stack, 1, Len(stack) - 1))

\* the pairs of a hash literal with n pairs in the order of this run; pairs
\* beyond those perm orders come last, in the order of the source
Order(perm, n) ==
  SelectSeq(perm, LAMBDA i : i <= n)
    \o [i \in 1..(IF n > Len(perm) THEN n - Len(perm) ELSE 0) |-> Len(perm) + i]

RECURSIVE Eval(_, _, _), EvalNode(_, _, _), evalProgramLoop(_, _, _, _, _),
          evalIfBranch(_, _, _, _), EvalKey(_, _, _),
          evalBlockLoop(_, _, _, _, _), evalExpressionsLoop(_, _, _, _, _),
          evalHashLoop(_, _, _, _, _, _), applyFunction(_, _, _)

\* the loop of a program that goes on after a statement that yields an Error
evalProgramLoop_PastError(program, i, env, st, result) ==
  IF i > Len(program.Statements) THEN [st |-> st, v |-> result]
  ELSE Only({
    IF IsPanic(r.v) THEN r
    ELSE IF r.v.type = "RETURN_VALUE" THEN [st |-> r.st, v |-> r.v.Value]
    ELSE evalProgramLoop(program, i + 1, env, r.st, r.v)
    : r \in {Eval(program.Statements[i], env,
                  Emit(At_(st, i), [ev |-> "stmt", blk |-> 0, i |-> i, env |-> env,
                                    n |-> Len(program.Statements)]))} })

evalProgramLoop(program, i, env, st, result) ==
  IF i > Len(program.Statements) THEN [st |-> st, v |-> result]
  ELSE Only({
    IF IsPanic(r.v) THEN r
    ELSE IF r.v.type = "ERROR" THEN r
    ELSE IF r.v.type = "RETURN_VALUE" THEN [st |-> r.st, v |-> r.v.Value]
    ELSE evalProgramLoop(program, i + 1, env, r.st, r.v)
    : r \in {Eval(program.Statements[i], env,
                  Emit(At_(st, i), [ev |-> "stmt", blk |-> 0, i |-> i, env |-> env,
                                    n |-> Len(program.Statements)]))} })

evalProgram(program, env, st) ==
  Only({ [st |-> Pop(r.st), v |-> r.v]
         : r \in {evalProgramLoop(program, 1, env,
                                  Push(st, [kind |-> "program", id |-> 0, i |-> 0]), NilObj)} })

\* the loop that goes on after a statement that yields an Error
evalBlockLoop_NoErrorStop(block, i, env, st, result) ==
  IF i > Len(block.Statements) THEN [st |-> st, v |-> result]
  ELSE Only({
    IF IsPanic(r.v) THEN r
    ELSE IF r.v.type # "nil" /\ r.v.type = "RETURN_VALUE" THEN r
    ELSE evalBlockLoop(block, i + 1, env, r.st, r.v)
    : r \in {Eval(block.Statements[i], env,
                  Emit(At_(st, i), [ev |-> "stmt", blk |-> Top(st).id, i |-> i, env |-> env,
                                    n |-> Len(block.Statements)]))} })

evalBlockLoop(block, i, env, st, result) ==
  IF i > Len(block.Statements) THEN [st |-> st, v |-> result]
  ELSE Only({
    IF IsPanic(r.v) THEN r
    ELSE IF r.v.type # "nil" /\ r.v.type \in {"RETURN_VALUE", "ERROR"} THEN r
    ELSE evalBlockLoop(block, i + 1, env, r.st, r.v)
    : r \in {Eval(block.Statements[i], env,
                  Emit(At_(st, i), [ev |-> "stmt", blk |-> Top(st).id, i |-> i, env |-> env,
                                    n |-> Len(block.Statements)]))} })

evalBlockStatement(block, env, st) ==
  Only({ [st |-> Pop(r.st), v |-> r.v]
         : r \in {evalBlockLoop(block, 1, env,
                                Push([st EXCEPT !.blocks = @ + 1],
                                     [kind |-> "block", id |-> st.blocks + 1, i |-> 0]),
                                NilObj)} })

\* a loop that evaluates every expression of the list and then returns the
\* first Error
evalExpressionsLoop_PastError(exps, i, env, st, result) ==
  IF i > Len(exps)
  THEN [st |-> st,
        v |-> IF \E j \in 1..Len(result) : Stops(result[j])
              THEN <<result[CHOOSE j \in 1..Len(result) :
                              Stops(result[j]) /\ \A h \in 1..(j - 1) : ~Stops(result[h])]>>
              ELSE result]
  ELSE Only({
    evalExpressionsLoop(exps, i + 1, env, evaluated.st, Append(result, evaluated.v))
    : evaluated \in {Eval(exps[i], env, st)} })

\* v is the list; a panic is passed on like an Error, as the only element
evalExpressionsLoop(exps, i, env, st, result) ==
  IF i > Len(exps) THEN [st |-> st, v |-> result]
  ELSE Only({
    IF Stops(evaluated.v) THEN [st |-> evaluated.st, v |-> <<evaluated.v>>]
    ELSE evalExpressionsLoop(exps, i + 1, env, evaluated.st, Append(result, evaluated.v))
    : evaluated \in {Eval(exps[i], env, st)} })

evalExpressions(exps, env, st) == evalExpressionsLoop(exps, 1, env, st, <<>>)

\* the choice of the branch, once the condition has a value
evalIfBranch(ie, env, st, condition) ==
  IF isTruthy(condition) THEN Eval(ie.Consequence, env, st)
  ELSE IF ie.Alternative # Nil THEN Eval(ie.Alternative, env, st)
  ELSE [st |-> st, v |-> NULL]

evalIfExpression(ie, env, st) ==
  Only({
    IF Stops(condition.v) THEN condition
    ELSE evalIfBranch(ie, env,
                      Emit(condition.st, [ev |-> "if", ie |-> ie, condition |-> condition.v,
                                          depth |-> Len(condition.st.stack)]),
                      condition.v)
    : condition \in {Eval(ie.Condition, env, st)} })

\* the pairs of node in the order order, from the k-th on
\* key := Eval(keyNode, env), and a record of the key
EvalKey(keyNode, env, st) ==
  Only({ IF Stops(key.v) THEN key
         ELSE [st |-> Emit(key.st, [ev |-> "key", key |-> key.v]), v |-> key.v]
         : key \in {Eval(keyNode, env, st)} })

evalHashLoop(node, order, k, env, st, pairs) ==
  IF k > Len(order) THEN NewObject(st, HashObj(pairs))
  ELSE Only({
    IF Stops(key.v) THEN key
    ELSE IF key.v.type = "nil" THEN [st |-> key.st, v |-> NilDeref]
    ELSE IF ~Hashable(key.v)
    THEN NewObject(key.st, newError("unusable as hash key: " \o key.v.type))
    ELSE Only({
      IF Stops(value.v) THEN value
      ELSE evalHashLoop(node, order, k + 1, env,
                        Emit(value.st, [ev |-> "pair", key |-> key.v, value |-> value.v]),
                        PairsPut(pairs, key.v, value.v))
      : value \in {Eval(node.Pairs[order[k]].value, env, key.st)} })
    : key \in {EvalKey(node.Pairs[order[k]].key, env, st)} })

evalHashLiteral(node, env, st) ==
  evalHashLoop(node, Order(st.perm, Len(node.Pairs)), 1, env, st, <<>>)

\* for paramIdx, param := range fn.Parameters { env.Set(param.Value, args[paramIdx]) }
RECURSIVE BindParameters(_, _, _, _, _)
BindParameters(envs, env, params, args, i) ==
  IF i > Len(params) THEN envs
  ELSE BindParameters(Set(envs, env, params[i].Value, args[i]), env, params, args, i + 1)

\* a call that binds its parameters in the environment the function captured
extendFunctionEnv_InCaptured(fn, args, st) ==
  IF Len(args) < Len(fn.Parameters)
  THEN [st |-> st, n |-> 0, ok |-> FALSE]
  ELSE [st |-> Emit([st EXCEPT !.envs = BindParameters(@, fn.Env, fn.Parameters, args, 1)],
                    [ev |-> "call", fn |-> fn, args |-> args, env |-> fn.Env,
                     from |-> st.stack, before |-> st.envs,
                     after |-> BindParameters(st.envs, fn.Env, fn.Parameters, args, 1),
                     store |-> st.envs[fn.Env].store]),
        n |-> fn.Env, ok |-> TRUE]

\* n is the new environment; with fewer arguments than parameters
\* args[paramIdx] is out of range
extendFunctionEnv(fn, args, st) ==
  IF Len(args) < Len(fn.Parameters)
  THEN [st |-> st, n |-> 0, ok |-> FALSE]
  ELSE [st |-> Emit([st EXCEPT !.envs =
                       BindParameters(Append(@, NewEnclosedEnvironment(fn.Env)),
                                      Len(st.envs) + 1, fn.Parameters, args, 1)],
                    [ev |-> "call", fn |-> fn, args |-> args, env |-> Len(st.envs) + 1,
                     from |-> st.stack, before |-> st.envs,
                     after |-> BindParameters(Append(st.envs, NewEnclosedEnvironment(fn.Env)),
                                              Len(st.envs) + 1, fn.Parameters, args, 1),
                     store |-> BindParameters(<<NewEnclosedEnvironment(fn.Env)>>, 1,
                                              fn.Parameters, args, 1)[1].store]),
        n |-> Len(st.envs) + 1, ok |-> TRUE]

applyFunction(fn, args, st) ==
  CASE fn.type = "FUNCTION" ->
         Only({
           IF ~extended.ok
           THEN [st |-> extended.st, v |-> Panic("runtime error: index out of range")]
           ELSE Only({
             [st |-> Emit(Pop(evaluated.st),
                          [ev |-> "exit", act |-> extended.n,
                           v |-> unwrapReturnValue(evaluated.v)]),
              v |-> unwrapReturnValue(evaluated.v)]
             : evaluated \in {Eval(fn.Body, extended.n,
                                   Push(extended.st,
                                        [kind |-> "call", id |-> extended.n, i |-> 0]))} })
           : extended \in {extendFunctionEnv(fn, args, st)} })
    [] fn.type = "BUILTIN" ->
         NewObject(IF fn.name = "puts"
                   THEN [st EXCEPT !.stdout =
                           @ \o [i \in 1..Len(args) |-> Inspect(args[i])]]
                   ELSE st,
                   Builtin(fn.name, args))
    [] fn.type = "nil" -> [st |-> st, v |-> NilDeref]
    [] OTHER -> NewObject(st, newError("not a function: " \o fn.type))

\* the cases of Eval
EvalNode(node, env, st) ==
  CASE node.kind = "Program" -> evalProgram(node, env, st)
    [] node.kind = "ExpressionStatement" -> Eval(node.Expression, env, st)
    [] node.kind = "IntegerLiteral" -> NewObject(st, Integer(node.Value))
    [] node.kind = "Boolean" -> [st |-> st, v |-> nativeBoolToBooleanObject(node.Value)]
    [] node.kind = "PrefixExpression" ->
         Only({
           IF Stops(right.v) THEN right
           ELSE NewObject(Emit(right.st, [ev |-> "prefix", right |-> right.v]),
                          evalPrefixExpression(node.Operator, right.v))
           : right \in {Eval(node.Right, env, st)} })
    [] node.kind = "InfixExpression" ->
         Only({
           IF Stops(left.v) THEN left
           ELSE Only({
             IF Stops(right.v) THEN right
             ELSE NewObject(Emit(right.st, [ev |-> "infix", left |-> left.v,
                                            right |-> right.v]),
                            evalInfixExpression(node.Operator, left.v, right.v))
             : right \in {Eval(node.Right, env, left.st)} })
           : left \in {Eval(node.Left, env, st)} })
    [] node.kind = "BlockStatement" -> evalBlockStatement(node, env, st)
    [] node.kind = "IfExpression" -> evalIfExpression(node, env, st)
    [] node.kind = "ReturnStatement" ->
         Only({
           IF Stops(val.v) THEN val
           ELSE NewObject(Emit(val.st, [ev |-> "return", val |-> val.v,
                                        encl |-> Enclosing(val.st.stack),
                                        act |-> Activation(val.st.stack)]),
                          ReturnValue(val.v))
           : val \in {Eval(node.ReturnValue, env, st)} })
    [] node.kind = "LetStatement" ->
         Only({
           IF Stops(val.v) THEN val
           ELSE [st |-> Emit([val.st EXCEPT !.envs = Set(@, env, node.Name.Value, val.v)],
                             [ev |-> "let", env |-> env, name |-> node.Name.Value,
                              val |-> val.v, act |-> Activation(val.st.stack),
                              before |-> val.st.envs,
                              after |-> Set(val.st.envs, env, node.Name.Value, val.v)]),
                 v |-> NilObj]
           : val \in {Eval(node.Value, env, st)} })
    [] node.kind = "Identifier" ->
         NewObject(Emit(st, [ev |-> "ident", name |-> node.Value, env |-> env,
                             scopes |-> Scopes(st.envs, env)]),
                   evalIdentifier(node, env, st.envs))
    [] node.kind = "FunctionLiteral" ->
         Only({ [st |-> Emit(fn.st, [ev |-> "fn", env |-> env, fn |-> fn.v]), v |-> fn.v]
                : fn \in {NewObject(st, FunctionObject(node, env))} })
    [] node.kind = "StringLiteral" -> NewObject(st, StringObj(node.Value))
    [] node.kind = "ArrayLiteral" ->
         Only({
           IF Len(elements.v) = 1 /\ Stops(elements.v[1])
           THEN [st |-> elements.st, v |-> elements.v[1]]
           ELSE NewObject(Emit(elements.st, [ev |-> "array", elements |-> elements.v]),
                          ArrayObj(elements.v))
           : elements \in {evalExpressions(node.Elements, env, st)} })
    [] node.kind = "IndexExpression" ->
         Only({
           IF Stops(left.v) THEN left
           ELSE Only({
             IF Stops(index.v) THEN index
             ELSE NewObject(Emit(index.st, [ev |-> "index", left |-> left.v,
                                            index |-> index.v]),
                            evalIndexExpression(left.v, index.v))
             : index \in {Eval(node.Index, env, left.st)} })
           : left \in {Eval(node.Left, env, st)} })
    [] node.kind = "HashLiteral" -> evalHashLiteral(node, env, st)
    [] node.kind = "CallExpression" ->
         Only({
           IF Stops(function.v) THEN function
           ELSE Only({
             IF Len(args.v) = 1 /\ Stops(args.v[1]) THEN [st |-> args.st, v |-> args.v[1]]
             ELSE applyFunction(function.v, args.v,
                                Emit(args.st, [ev |-> "args", fn |-> function.v,
                                               args |-> args.v]))
             : args \in {evalExpressions(node.Arguments, env, function.st)} })
           : function \in {Eval(node.Function, env, st)} })
    [] node.kind = TypedNilLet.kind -> [st |-> st, v |-> NilDeref]
    [] OTHER -> [st |-> st, v |-> NilObj]

\* Eval, and the record of what it returned
Eval(node, env, st) ==
  Only({ [st |-> Emit(r.st, [ev |-> "eval", kind |-> node.kind, env |-> env, v |-> r.v,
                             node |-> node, depth |-> Len(r.st.stack),
                             start |-> Len(st.trace)]),
          v |-> r.v]
         : r \in {EvalNode(node, env, st)} })

\* the state in which an evaluation starts: env := object.NewEnvironment()
NewState(perm) ==
  [envs |-> <<NewEnvironment>>, next |-> FirstFreeId, stdout |-> <<>>, perm |-> perm,
   trace |-> <<>>, stack |-> <<>>, blocks |-> 0]

(***************************************************************************)
(* The inputs.                                                             *)
(***************************************************************************)
\* the texts of the tokens in ts, separated by blanks
Spaced(ts) == Join(ts, " ")

\* operator expressions: operand, operator, operand, ...
OperandNames == <<"a", "1", "b", "2", "c", "3", "d", "4">>
BinaryTexts == {"+", "-", "*", "/", "<", ">", "==", "!="}

RECURSIVE Flat(_, _)
Flat(ops, i) ==
  IF ops = <<>> THEN OperandNames[i]
  ELSE OperandNames[i] \o " " \o Head(ops) \o " " \o Flat(Tail(ops), i + 1)

FlatInputs == {Flat(ops, 1) : ops \in SeqsUpTo(BinaryTexts, MaxOperands - 1)}

\* operands with prefix operators, calls, indexes and groups
AtomTexts == {"a", "-a", "!a", "!-a", "f(a)", "-f(a + b)", "a[1]", "-a[b * 2]",
              "(a + b)", "-(a == b)", "!(a * b)", "f(a)[1]", "[1, 2][a]"}
AtomOps == {"+", "*", "==", "<", "-"}

RECURSIVE AtomSeqs(_)
AtomSeqs(n) ==
  IF n = 1 THEN AtomTexts
  ELSE LET shorter == AtomSeqs(n - 1)
       IN shorter \cup {s \o " " \o o \o " " \o a : s \in shorter, o \in AtomOps, a \in AtomTexts}

NamedExprInputs ==
  {"a + b * c", "a + b + c", "-a * b", "!-a", "a + add(b * c) + d",
   "a * [1, 2, 3, 4][b * c] * d", "add(a * b[2], b[1], 2 * [1, 2][1]);",
   "add(a + b + c * d / f + g);", "1 + (2 + 3) + 4;", "(5 + 5) * 2;", "2 / (5 + 5);",
   "-(5 + 5);", "!(true == true);", "a - -b == c < d != e", "3 + 4; -5 * 5"}

ExprInputs == FlatInputs \cup AtomSeqs(MaxAtoms) \cup NamedExprInputs

\* arbitrary token sequences, malformed ones included
TokenTexts == {"a", "1", "+", "(", ")", "{", "}", "[", "]", ",", ":", ";", "=", "!",
               "fn", "let", "if", "return"}

NamedParseInputs ==
  {"let x = 5; let y = 10; let foobar = 838383;", "let x 5;", "let = 10;", "let 838383;",
   "return 5; return 10;", "if (x < y) { x } else { y }", "if (x) { 1", "if (x) { x } else y",
   "fn(x, y) { x + y; }", "fn(x {}", "fn(1, 2) {}", "add(1, 2 * 3, 4 + 5);", "[1, 2 * 2, 3 + 3]",
   "[1, 2", "myArray[1 + 1]", "a[1", "{\"one\": 1, \"two\": 2}", "{1: 2,}", "{1: 2 3: 4}",
   "{1 2}", "{}", "{{{{", "(1 + 2", "1 + ", "08", "\"abc", "a @ b", "# a", "!= ==",
   "fn(a, b, c) { return a; } (1, 2, 3)", "if (a) { let b = c; return b; }",
   "fn(a, b) { {1: 2, 3: 4}; } (1, 2) + 1", "fn() {", "let x = ;", "return;",
   "{1: 2, 3: 4,}", "{\"a\": 1,}", "let h = {1: 2,};", "{,}", "{1: 2,,}", "{1: {2: 3,}}",
   "fn() {}", "fn(a, 1) {}", "fn(fn) {}", "fn(a,) {}", "fn(,) {}", "fn(a b) {}", "fn(x) {}",
   "fn(\"a\") { 1 }", "let f = fn(x, y, z) { };", "let 5 = 6; let y = fn() { let };",
   "if (a) { let } else { let 1 }", "fn(x) 1", "fn x { 1 }"}

\* integer literals: every string of up to MaxDigits digits of IntDigits, some
\* beyond the largest int64, and some inside statements
IntDigits == {"0", "1", "7", "8", "9"}

IntInputs ==
  {Concat(ds) : ds \in SeqsUpTo(IntDigits, MaxDigits) \ {<<>>}}
    \cup {"9223372036854775808", "99999999999999999999", "10000000000000000000",
          "09223372036854775808", "123456789", "0123", "5", "let x = 010;", "007 + 1",
          "[010, 10]", "return 9223372036854775808;", "fn(x) { 017 }", "1 + 08"}

ParseInputs ==
  {Spaced(ts) : ts \in SeqsUpTo(TokenTexts, MaxTokLen)} \cup NamedParseInputs \cup IntInputs

\* programs for the evaluator: up to MaxStmts statements of StmtPool, at the
\* top of the program, in the body of a called function, in the block of an
\* if expression, and in the body of a function called before a last statement
StmtPool == {"return 1", "2", "foo", "let a = 3", "a", "if (true) { return 4 }",
             "let b = if (true) { return 5 }", "if (2 > 1) { if (true) { return 6 } return 7 }"}

RECURSIVE Bodies(_)
Bodies(n) ==
  IF n = 1 THEN StmtPool
  ELSE Bodies(n - 1) \cup {b \o "; " \o s : b \in {c \in Bodies(n - 1) : TRUE}, s \in StmtPool}

Wrapped(b) ==
  {b, "fn() { " \o b \o " }()", "if (true) { " \o b \o " }", "fn() { " \o b \o " }(); 9"}

NamedEvalInputs ==
  {"{1: 2, 1: 3}", "{1: 2, 1: 3}[1]", "{foo: 1, bar: 2}", "{\"a\": 1, \"a\": 2}[\"a\"]",
   "{1: foo, 2: bar}", "{1: 2, 3: 4}", "{true: 1, false: 2}[true]", "{1: 2, [1]: 3}",
   "{fn(x) { x }: 1, 2: -true}", "let k = 1; {k: 10, k + 0: 20}[1]", "{1: 1}",
   "[1, foo, bar]", "foo + bar", "foo(bar)", "let f = fn(a, b, c) { a }; f(1, foo, bar)",
   "len(foo, bar)", "[1, 2 + true, baz]", "(1 + true) + foo", "fn(a, b) { a }(-true, foo)",
   "[puts(1), puts(2), puts(3)]", "puts(1) + puts(2)", "puts(puts(1), puts(2))",
   "let f = fn(a, b) { a + b }; f(1 + 2, 3 * 4)", "[1 + 2, [3, 4], fn(x) { x }(5)]",
   "(1 + 2) * (3 + 4)", "[]", "fn(a) { a }(1)(foo)", "1(foo)", "[1, 2][foo]",
   "let a = 1; let b = foo; let c = 3;", "let a = 1; let a = foo; a", "let a = 1; let a = 1 + true; let b = 2; b",
   "let a = 1; fn() { let b = 2; let c = -true; let d = 4; }(); let e = 5;", "let a = bar;",
   "let a = 1; if (true) { let b = true + 1; let c = 3; }; let d = 4;", "let a = 1; let b = [2, foo]; 3",
   "let a = 2; let f = fn(x) { let y = x + true; y }; let b = f(1); let c = 3;",
   "if (true) { let a = 1; }; a", "let a = 1; if (true) { let a = 2; }; a",
   "let a = 1; fn() { let a = 2; }(); a", "let a = 1; let f = fn(a) { let a = 3; a }; f(2); a",
   "let a = 1; let f = fn() { let b = 2; b }; f(); b", "let g = fn(x) { fn() { let x = 9; x } }; let h = g(1); h(); h()",
   "let a = 1; let f = fn() { if (true) { let a = 5; }; a }; f() + a",
   "let x = 1; let f = fn(x) { let y = x; y }; let g = fn(y) { f(3) + y }; g(4) + x",
   "let x = 5;", "5; let y = 1;", "if (true) {}", "if (false) { 1 } else {}", "fn() {}()",
   "let f = fn() {}; f()", "fn() { let a = 1; }()", "if (true) { let a = 1; }", "[fn() {}()]",
   "-fn() {}()", "let u = fn() {}(); u", "1; 2", "if (1 < 2) { 10 }",
   "", "5", "return 10;", "return 10; 9;", "return 2 * 5; 9;", "9; return 2 * 5; 9;",
   "if (10 > 1) { if (10 > 1) { return 10; } return 1; }",
   "let newAdder = fn(x) { fn(y) { x + y }; }; let addTwo = newAdder(2); addTwo(3);",
   "let x = 1; let f = fn() { x }; let g = fn(x) { f() }; g(2)",
   "let f = fn(x) { return x; x + 10; }; f(1) + f(2)",
   "let f = fn() { if (true) { return 1 } 2 }; let a = f(); a + 1",
   "5 + true; 5;", "-true", "true + false;", "5; true + false; 5",
   "if (10 > 1) { true + false; }",
   "if (10 > 1) { if (10 > 1) { return true + false; } return 1; }",
   "foobar", "\"Hello\" - \"World\"", "{\"name\": \"Monkey\"}[fn(x) { x }];",
   "[1, foo, 2]", "{foo: 1}", "{1: foo}", "{1: 2, foo: 3}", "len(foo)", "len(1, foo)", "-foo",
   "!foo", "foo + 1", "1 + foo", "[1][foo]", "foo[1]", "if (foo) { 1 }", "let a = foo; 1",
   "return foo; 1", "fn() { foo; 1 }(); 2", "fn(a) { a }(foo)", "foo(1)", "1(2)",
   "if (true) { foo; 1 } else { 2 }", "if (false) { 1 } else { foo; 2 }", "len(1)",
   "len(\"one\", \"two\")", "fn() { fn() { foo }() + 1 }(); 3", "[[foo]]", "{1: [foo]}[1]",
   "let x = if (true) { return 1; }; 5", "1 + if (true) { return 2 }",
   "fn() { let x = if (true) { return 1 }; 2 }()", "return if (true) { return 1 }",
   "[if (true) { return 1 }]", "len(if (true) { return \"ab\" })",
   "fn(a) { a }(if (true) { return 1 })", "{1: if (true) { return 2 }}",
   "-if (true) { return 1 }", "[1, 2][if (true) { return 0 }]",
   "let f = fn() { return if (true) { return 1 } }; f(); 5",
   "if (true) { let a = 1 }", "let a = 1", "if (false) { 1 }", "if (true) { }",
   "{\"a\": 1, \"b\": 2}[\"a\"]", "{1: 2, 1: 3}[1]", "[1, 2, 3][1]", "[1, 2, 3][3]",
   "puts(\"a\", 1)", "fn(a, b) { a }(1)", "fn(a) { a }(1, 2)", "7 / 2", "-7 / 2", "1 / 0",
   "let a = [1]; a == a", "[1] == [1]", "1 == true", "len == len", "first([1, 2])",
   "rest([1, 2])", "push([1], 2)", "last([])", "\"a\" + \"b\"", "\"a\" == \"a\"",
   "!5", "!!true", "if (0) { 1 } else { 2 }",
   "if (true) { 10 }", "if (false) { 10 } else { 20 }", "if (1) { 10 } else { 20 }",
   "if (1 < 2) { 10 } else { 20 }", "if (1 > 2) { 10 } else { 20 }", "if (1 > 2) { 10 }",
   "if (1 < 2) { 10 }", "if (\"\") { 1 } else { 2 }", "if (if (false) { 1 }) { 2 } else { 3 }",
   "if (if (false) { 1 }) { 2 } else { if (0) { if (1 > 2) { 3 } else { 4 } } else { 5 } }",
   "if ([]) { 1 } else { 2 }", "if (fn() { false }) { 1 } else { 2 }",
   "if (fn() { false }()) { 1 } else { 2 }",
   "{\"one\": 1, \"two\": 2, 4: 4, true: 5, false: 6}[\"two\"]", "{}[\"foo\"]", "{5: 5}[5]",
   "{true: 5}[true]", "{false: 5}[false]", "{\"foo\": 5}[\"bar\"]", "{1: 5}[true]",
   "{true: 5}[1]", "{\"1\": 5}[1]", "{0: 5}[false]", "{1: 2}[[1]]", "{1: 2}[{1: 2}]",
   "{1: 2}[len]", "{1: 2}[if (false) { 1 }]", "{[1]: 2}", "{fn(x) { x }: 2}", "{{}: 1}",
   "{if (false) { 1 }: 2}", "{len: 1}", "{1: 2, [1]: 3}", "{if (true) { return 1 }: 2}",
   "{-1: 1, 1: 2}[-1]", "let k = \"a\"; {k: 1, \"b\": k}[\"b\"]", "{1: 2}[fn() { }()]",
   "{fn() { }(): 1}",
   "fn() { 1 }(2, 3)", "let f = fn(a, b) { 1 }; f(); 2", "fn(a) { a }()",
   "let f = fn(a, b) { a + b }; f(1, 2, 3)", "fn(a, b) { b }(1, 2)",
   "let len = 5; len", "let len = fn(x) { 7 }; len(\"ab\")", "len", "len(\"ab\")",
   "let x = 1; fn(x) { x }(2)", "let x = 1; let f = fn() { let x = 2; x }; f() + x",
   "let f = fn(puts) { puts }; f(3)", "let f = fn() { first }; f()([4])",
   "let f = fn(a) { fn(b) { fn(a) { a + b } } }; f(1)(2)(3)", "let x = 1; let x = 2; x",
   "let f = fn() { y }; let y = 4; f()", "let f = fn() { y }; f()", "rest; lenn",
   "{\"8yn0iYCKYHlIj4-BwPqk\": 1}[\"GReLUrM4wMqfg9yzV3KQ\"]"}

EvalInputs == UNION {Wrapped(b) : b \in Bodies(MaxStmts)} \cup NamedEvalInputs

\* operands for evalInfixExpression: two of each kind of object, of which the
\* arrays, hashes, functions and return values are alike but not the same
Identified(obj, id) == [obj EXCEPT !.id = id]

IntOperands == [i \in 1..(2 * MaxInt + 1) |-> Identified(Integer(i - MaxInt - 1), 100 + i)]

OtherOperands ==
  <<Identified(StringObj(""), 20), Identified(StringObj("a"), 21),
    Identified(StringObj("a"), 22), Identified(StringObj("b"), 23),
    TrueObj, FalseObj, NULL,
    Identified(ArrayObj(<<>>), 24), Identified(ArrayObj(<<>>), 25),
    Identified(HashObj(<<>>), 26), Identified(HashObj(<<>>), 27),
    Identified(FunctionObject([Parameters |-> <<>>, Body |-> Nil], 1), 28),
    Identified(FunctionObject([Parameters |-> <<>>, Body |-> Nil], 1), 29),
    BuiltinObj("len"), BuiltinObj("puts"),
    Identified(ReturnValue(NULL), 30), Identified(ReturnValue(NULL), 31)>>

InfixOperands == IntOperands \o OtherOperands

\* what is indexed: the arrays of up to MaxElems of three elements, and two hashes
IndexElements ==
  <<Identified(Integer(7), 40), Identified(Integer(8), 41), Identified(Integer(7), 46)>>
IndexArray(ixs) == Identified(ArrayObj([i \in 1..Len(ixs) |-> IndexElements[ixs[i]]]), 42)
IndexArrays == {IndexArray(ixs) : ixs \in SeqsUpTo(1..Len(IndexElements), MaxElems)}
IndexHashes ==
  {Identified(HashObj(<<>>), 43),
   Identified(HashObj(<<[Key |-> Identified(Integer(1), 44), Value |-> IndexElements[1]],
                        [Key |-> Identified(Integer(2), 47), Value |-> IndexElements[2]]>>), 45)}
InfixOperators == {"+", "-", "*", "/", "<", ">", "==", "!="}

(***************************************************************************)
(* The state before the parser and the evaluator have run.                 *)
(***************************************************************************)
NoParse ==
  [program |-> Nil, errors |-> <<>>, iters |-> <<>>, ntok |-> 0, stuck |-> FALSE, last |-> ""]
NoOut == [done |-> FALSE]

Start(inputs, at) ==
  /\ src \in inputs
  /\ pc = at
  /\ lx = LexerNew(src)
  /\ toks = <<>>
  /\ parsed = NoParse
  /\ out = NoOut

(***************************************************************************)
(* The actions.                                                            *)
(***************************************************************************)
\* one call of NextToken on the lexer lx; the calls stop after MaxExtraCalls
\* EOF tokens, and at the latest MaxExtraCalls calls beyond the input's length
EOFCount(ts) == Cardinality({i \in 1..Len(ts) : ts[i].Type = "EOF"})

LexStep ==
  /\ pc = "lex"
  /\ EOFCount(toks) < MaxExtraCalls
  /\ Len(toks) < Len(src) + MaxExtraCalls
  /\ \E r \in {NextToken(lx)} :
        /\ lx' = r.l
        /\ toks' = Append(toks, r.tok)
  /\ UNCHANGED <<src, pc, parsed, out>>

\* p := parser.New(lexer.New(src)); program := p.ParseProgram(), on an input
\* that has not been tokenised by hand; last is the type of the current token
\* when ParseProgram returns
DoParse(from, to) ==
  /\ pc = from
  /\ toks = <<>>
  /\ \E r \in {Parse(src)} :
        parsed' = [program |-> r.n, errors |-> r.p.errors, iters |-> r.p.iters,
                   ntok |-> r.p.ntok, stuck |-> r.p.stuck, last |-> r.p.curToken.Type]
  /\ pc' = to
  /\ UNCHANGED <<src, lx, toks, out>>

\* the orders in which a run may iterate over the pairs of a hash literal
Perms(n) == {p \in [1..n -> 1..n] : \A i, j \in 1..n : p[i] = p[j] => i = j}

\* evaluated := Eval(program, env) with env := object.NewEnvironment(), on a
\* program that was parsed without errors
DoEval ==
  /\ pc = "eval"
  /\ parsed.errors = <<>>
  /\ \E perm \in Perms(MaxPairs) : \E r \in {Eval(parsed.program, 1, NewState(perm))} :
        out' = [done |-> TRUE, v |-> r.v, envs |-> r.st.envs, trace |-> r.st.trace,
                stdout |-> r.st.stdout, perm |-> perm]
  /\ pc' = "evaluated"
  /\ UNCHANGED <<src, lx, toks, parsed>>

\* evalIndexExpression(left, index) on the operands drawn in InitIndex
ApplyIndex ==
  /\ pc = "index"
  /\ out' = [out EXCEPT !.done = TRUE, !.result = evalIndexExpression(out.left, out.index)]
  /\ pc' = "indexed"
  /\ UNCHANGED <<src, lx, toks, parsed>>

\* evalInfixExpression(operator, left, right) on the operands drawn in InitInfix
ApplyInfix ==
  /\ pc = "infix"
  /\ out' = [out EXCEPT !.done = TRUE,
                        !.result = evalInfixExpression(out.operator, out.left, out.right)]
  /\ pc' = "applied"
  /\ UNCHANGED <<src, lx, toks, parsed>>

(***************************************************************************)
(* SpecExpr: the parser on operator expressions.                           *)
(***************************************************************************)
InitExpr == Start(ExprInputs, "parse")
ParseExpr == DoParse("parse", "done")
NextExpr == ParseExpr
SpecExpr == InitExpr /\ [][NextExpr]_vars

(***************************************************************************)
(* SpecParse: the lexer and the parser on arbitrary token sequences.       *)
(***************************************************************************)
InitParse == Start(ParseInputs, "lex")
ParseAny == DoParse("lex", "done")
NextParse == LexStep \/ ParseAny
SpecParse == InitParse /\ [][NextParse]_vars

(***************************************************************************)
(* SpecLex: the lexer alone, one call of NextToken after the other, on     *)
(* every string of up to MaxChars characters of LexChars (NUL is the zero  *)
(* byte) and on some longer ones.                                          *)
(***************************************************************************)
LexChars == {"=", "!", "\"", "a", "1", " ", NUL}

NamedLexInputs ==
  {"a == b != c", "a === b", "a !== b", "= == ! != =", "!!==a", "a=!b", "==!=!==",
   "\"hello world\"", "\"hello world", "\"a\" \"b", "\"foo bar\" + \"", "let s = \"abc",
   "\"a" \o NUL \o "b\"", "a" \o NUL \o "b", "1 + 2" \o NUL \o "3", "\"a = b\" == \"a != b\""}

LexInputs == {Concat(cs) : cs \in SeqsUpTo(LexChars, MaxChars)} \cup NamedLexInputs

InitLex == Start(LexInputs, "lex")
NextLex == LexStep
SpecLex == InitLex /\ [][NextLex]_vars

(***************************************************************************)
(* SpecRound: a program parsed, written back with String(), and the text   *)
(* parsed and written back again.                                          *)
(***************************************************************************)
\* well-formed programs with every kind of statement and expression
NamedRoundInputs ==
  {"let x = 5;", "let x = 5; let y = 10;", "return 5;", "return 5; return 10;",
   "let x = 1 + 2 * 3; return x;", "a; b", "1; 2", "5; -3", "a; (b)", "a + b; c",
   "if (x < y) { x }", "if (x < y) { x } else { y }", "if (a) { let b = c; return b; }",
   "if (true) { 1 } else { 2 }", "let m = if (a) { 1 } else { 2 };",
   "fn(x, y) { x + y; }", "fn() { 1 }", "fn(x) { x }", "fn() {}", "fn(x) { return x; }",
   "let add = fn(a, b) { a + b };", "let f = fn(x) { if (x) { 1 } else { 2 } };",
   "add(1, 2 * 3, 4 + 5);", "f()", "f(a)(b)", "fn(x) { x }(5)", "add(a, add(b, c))",
   "\"hello\"", "\"hello world\"", "\"\"", "let s = \"a b\";", "\"a\" + \"b\"",
   "len(\"four\")", "return \"x y\";",
   "[1, 2 * 2, 3 + 3]", "myArray[1 + 1]", "a * [1, 2][0]", "{\"one\": 1, \"two\": 2}",
   "{1: 2}", "{}", "-a * b", "!-a", "(a + b) * c", "a + b * c", "true == !false",
   "let x = 5; x; return x;", "let id = fn(x) { x }; id(1);"}

RoundInputs == NamedRoundInputs \cup NamedExprInputs \cup FlatInputs

\* l := lexer.New(input); p := New(l); program := p.ParseProgram()
ParseRound == DoParse("round", "reparse")

\* actual := program.String() on a program parsed without errors, then the
\* same two steps on actual
Reparse ==
  /\ pc = "reparse"
  /\ parsed.errors = <<>>
  /\ \E s \in {String(parsed.program)} : \E r \in {Parse(s)} :
        out' = [done |-> TRUE, s |-> s, errors |-> r.p.errors, again |-> String(r.n)]
  /\ pc' = "reparsed"
  /\ UNCHANGED <<src, lx, toks, parsed>>

InitRound == Start(RoundInputs, "round")
NextRound == ParseRound \/ Reparse
SpecRound == InitRound /\ [][NextRound]_vars

(***************************************************************************)
(* SpecEval: programs parsed and evaluated.                                *)
(***************************************************************************)
InitEval == Start(EvalInputs, "parse")
ParseProg == DoParse("parse", "eval")
NextEval == ParseProg \/ DoEval
SpecEval == InitEval /\ [][NextEval]_vars

(***************************************************************************)
(* SpecIndex: evalIndexExpression on an array or a hash and an index.      *)
(***************************************************************************)
InitIndex ==
  /\ src = ""
  /\ pc = "index"
  /\ lx = LexerNew(src)
  /\ toks = <<>>
  /\ parsed = NoParse
  /\ \E left \in IndexArrays \cup IndexHashes : \E j \in 1..Len(InfixOperands) :
       out = [done |-> FALSE, left |-> left, index |-> InfixOperands[j], result |-> NilObj]
NextIndex == ApplyIndex
SpecIndex == InitIndex /\ [][NextIndex]_vars

(***************************************************************************)
(* SpecInfix: evalInfixExpression on an operator and two objects.          *)
(***************************************************************************)
InitInfix ==
  /\ src = ""
  /\ pc = "infix"
  /\ lx = LexerNew(src)
  /\ toks = <<>>
  /\ parsed = NoParse
  /\ \E operator \in InfixOperators : \E i, j \in 1..Len(InfixOperands) :
       out = [done |-> FALSE, operator |-> operator, left |-> InfixOperands[i],
              right |-> InfixOperands[j], result |-> NilObj]
NextInfix == ApplyInfix
SpecInfix == InitInfix /\ [][NextInfix]_vars

(***************************************************************************)
(* SpecRepl: up to MaxLines lines parsed and evaluated one after the       *)
(* other with Eval(program, env) on one environment env, as the REPL does. *)
(***************************************************************************)
ReplLines ==
  {"let x = 5;", "x", "let f = fn(n) { if (n < 1) { 0 } else { f(n - 1) } };", "f(1)",
   "let g = fn() { x };", "g()", "let x = 1; let h = fn() { let x = 2; x }; h(); x",
   "let k = fn() { y }; let y = 7; k()", "let x 5;"}

InitRepl ==
  /\ src = ""
  /\ pc = "repl"
  /\ lx = LexerNew(src)
  /\ toks = <<>>
  /\ parsed = NoParse
  /\ out = [done |-> FALSE, lines |-> <<>>, envs |-> <<NewEnvironment>>, next |-> FirstFreeId]

\* one line: program := p.ParseProgram(), and without parser errors
\* evaluated := Eval(program, env) on the environment of the lines before
EvalLine ==
  /\ pc = "repl"
  /\ Len(out.lines) < MaxLines
  /\ \E line \in ReplLines : \E perm \in Perms(MaxPairs) : \E r \in {Parse(line)} :
       /\ parsed' = [program |-> r.n, errors |-> r.p.errors, iters |-> r.p.iters,
                     ntok |-> r.p.ntok, stuck |-> r.p.stuck, last |-> r.p.curToken.Type]
       /\ IF r.p.errors # <<>>
          THEN out' = [out EXCEPT !.done = TRUE,
                                  !.lines = Append(@, [line |-> line, ran |-> FALSE,
                                                       v |-> NilObj, from |-> out.envs,
                                                       trace |-> <<>>])]
          ELSE \E e \in {Eval(r.n, 1, [NewState(perm) EXCEPT !.envs = out.envs,
                                                             !.next = out.next])} :
                 out' = [done |-> TRUE, envs |-> e.st.envs, next |-> e.st.next,
                         lines |-> Append(out.lines,
                                          [line |-> line, ran |-> TRUE, v |-> e.v,
                                           from |-> out.envs, trace |-> e.st.trace])]
  /\ UNCHANGED <<src, pc, lx, toks>>

NextRepl == EvalLine
SpecRepl == InitRepl /\ [][NextRepl]_vars

(***************************************************************************)
(* The parser's grouping of operator expressions.                          *)
(***************************************************************************)
\* operand, binary operator, operand, ..., operand
IsFlat(ts) ==
  /\ Len(ts) % 2 = 1
  /\ \A i \in 1..Len(ts) :
       IF i % 2 = 1 THEN ts[i].Type \in {"IDENT", "INT"} ELSE ts[i].Type \in RefBinary

Parsed == pc = "done"
SrcTokens == DropSemicolon(Tokens(src))

\* C1: an expression of identifiers, integer literals and binary operators is
\* grouped so that an operator of a higher level binds tighter than one of a
\* lower level and operators of one level associate to the left, and it is
\* parsed without errors.
C1_BinaryGrouping ==
  (Parsed /\ IsFlat(SrcTokens)) =>
     /\ parsed.errors = <<>>
     /\ String(parsed.program) = Ref(SrcTokens)

\* a + 1 * b + 2 has been parsed as ((a + (1 * b)) + 2)
C1_Witness ==
  /\ Parsed
  /\ src = "a + 1 * b + 2"
  /\ IsFlat(SrcTokens)
  /\ String(parsed.program) = "((a + (1 * b)) + 2)"

\* C2: in an expression that also has prefix operators, calls, indexes or
\* parenthesised groups, a prefix operator binds tighter than every binary
\* operator, a call and an index bind tighter than both, and a group is
\* parsed on its own; it is parsed without errors.  In the table of
\* precedences INDEX > CALL > PREFIX > every binary operator.
C2_PrefixCallIndexGrouping ==
  /\ precedences("LBRACKET") > precedences("LPAREN")
  /\ precedences("LPAREN") > PREFIX
  /\ \A t \in RefBinary : PREFIX > precedences(t) /\ precedences(t) > LOWEST
  /\ (Parsed /\ ~IsFlat(SrcTokens) /\ Ref(SrcTokens) # BadRef) =>
        /\ parsed.errors = <<>>
        /\ String(parsed.program) = Ref(SrcTokens)

\* -a * b and an index inside a product have been parsed
C2_Witness ==
  /\ Parsed
  /\ src = "-a[b * 2] * f(a)"
  /\ Ref(SrcTokens) # BadRef
  /\ String(parsed.program) = "((-(a[(b * 2)])) * f(a))"

(***************************************************************************)
(* Termination of the lexer and the parser.                                *)
(***************************************************************************)
LoopNames == {"ParseProgram", "parseBlockStatement", "parseHashLiteral", "parseExpressionList",
              "parseFunctionParameters", "parseExpression"}

\* C8: ParseProgram terminates on every input: no loop of the parser is cut
\* short by the iteration bound, every iteration of its six loops consumes at
\* least one token or leaves the loop, ParseProgram returns at EOF, and the
\* lexer delivers EOF within Len(src) + 1 calls of NextToken.
C8_ParsingTerminates ==
  /\ Parsed =>
       /\ ~parsed.stuck
       /\ \A i \in 1..Len(parsed.iters) :
            /\ parsed.iters[i].loop \in LoopNames
            /\ parsed.iters[i].left \/ parsed.iters[i].after > parsed.iters[i].before
       /\ parsed.last = "EOF"
  /\ Len(toks) > Len(src) => \E i \in 1..(Len(src) + 1) : toks[i].Type = "EOF"

\* an input whose parse went through all six loops has been parsed
C8_Witness ==
  /\ Parsed
  /\ src = "fn(a, b) { {1: 2, 3: 4}; } (1, 2) + 1"
  /\ {parsed.iters[i].loop : i \in 1..Len(parsed.iters)} = LoopNames
  /\ ~parsed.stuck
  /\ parsed.last = "EOF"

(***************************************************************************)
(* What the parser does with a malformed construct.                        *)
(***************************************************************************)
\* the nodes String() of a node renders without a test for nil; the
\* expression of a statement and the alternative of an if expression may be
\* nil
PartsOf(n) ==
  CASE n.kind \in {"Program", "BlockStatement"} -> n.Statements
    [] n.kind = "ExpressionStatement" ->
         IF n.Expression # Nil THEN <<n.Expression>> ELSE <<>>
    [] n.kind = "ReturnStatement" ->
         IF n.ReturnValue # Nil THEN <<n.ReturnValue>> ELSE <<>>
    [] n.kind = "LetStatement" ->
         <<n.Name>> \o (IF n.Value # Nil THEN <<n.Value>> ELSE <<>>)
    [] n.kind = "PrefixExpression" -> <<n.Right>>
    [] n.kind = "InfixExpression" -> <<n.Left, n.Right>>
    [] n.kind = "IfExpression" ->
         <<n.Condition, n.Consequence>>
           \o (IF n.Alternative # Nil THEN <<n.Alternative>> ELSE <<>>)
    [] n.kind = "FunctionLiteral" -> Append(n.Parameters, n.Body)
    [] n.kind = "CallExpression" -> <<n.Function>> \o n.Arguments
    [] n.kind = "ArrayLiteral" -> n.Elements
    [] n.kind = "IndexExpression" -> <<n.Left, n.Index>>
    [] n.kind = "HashLiteral" ->
         [i \in 1..(2 * Len(n.Pairs)) |->
            IF i % 2 = 1 THEN n.Pairs[(i + 1) \div 2].key ELSE n.Pairs[i \div 2].value]
    [] OTHER -> <<>>

\* n and every part below it is there: none is nil
RECURSIVE WellBuilt(_)
WellBuilt(n) ==
  /\ n # Nil
  /\ n # TypedNilLet
  /\ \A i \in 1..Len(PartsOf(n)) : WellBuilt(PartsOf(n)[i])

Count(ts, types) == Cardinality({i \in 1..Len(ts) : ts[i].Type \in types})

\* more opening than closing delimiters: one construct at least is not closed
Unclosed(ts) ==
  Count(ts, {"LPAREN", "LBRACE", "LBRACKET"}) > Count(ts, {"RPAREN", "RBRACE", "RBRACKET"})

\* C9: a malformed construct appends an error and yields nil, so that the
\* program holds no partially built node, and ParseProgram goes on to EOF: an
\* input with an unclosed delimiter has an error, and every node of every
\* program has all the parts its String() relies on.
C9_MalformedConstructs ==
  Parsed =>
    /\ Unclosed(Tokens(src)) => parsed.errors # <<>>
    /\ WellBuilt(parsed.program)
    /\ parsed.last = "EOF"

(***************************************************************************)
(* The evaluator: return, errors and closures.                             *)
(***************************************************************************)
Evaluated == pc = "evaluated"
Events == IF Evaluated THEN out.trace ELSE <<>>

\* a and b are the same value of the same variant
SameValue(a, b) ==
  /\ a.type = b.type
  /\ CASE a.type \in {"INTEGER", "STRING", "BOOLEAN"} -> a.Value = b.Value
       [] a.type \in {"ERROR", "panic"} -> a.Message = b.Message
       [] a.type \in {"NULL", "nil"} -> TRUE
       [] OTHER -> a.id = b.id

IsInteger(obj, value) == obj.type = "INTEGER" /\ obj.Value = value

\* the k-th event is a return statement that made a ReturnValue
IsReturn(k) == Events[k].ev = "return"

\* the call whose environment is act ended after the k-th event, and with
\* the value val
ExitsWith(act, k, val) ==
  \E j \in (k + 1)..Len(Events) :
    /\ Events[j].ev = "exit"
    /\ Events[j].act = act
    /\ Same(Events[j].v, val)

\* C3: after a return statement no later statement of a block around it is
\* evaluated, and the innermost function call around it, or the program when
\* there is none, yields exactly the returned value.
C3_ReturnPropagation ==
  (Evaluated /\ ~IsPanic(out.v)) =>
    \A k \in 1..Len(Events) :
      IsReturn(k) =>
        /\ \A j \in (k + 1)..Len(Events) :
             Events[j].ev = "stmt" => Events[j].blk \notin Events[k].encl
        /\ IF Events[k].act = 0 THEN Same(out.v, Events[k].val)
           ELSE ExitsWith(Events[k].act, k, Events[k].val)

\* the "call" event of the call whose environment is act
CallOf(act) == Events[CHOOSE c \in 1..Len(Events) : Events[c].ev = "call" /\ Events[c].env = act]

\* the frame of the block or program that made the call, and the number of
\* statements of that block or program
CallerFrame(act) == CallOf(act).from[Len(CallOf(act).from)]
CallerLen(act) ==
  Events[CHOOSE s \in 1..Len(Events) :
           Events[s].ev = "stmt" /\ Events[s].blk = CallerFrame(act).id].n

\* C4: a return in the body of a function ends that call only: the call
\* yields the returned value, which is no ReturnValue, and when the statement
\* of the call is not the last of its block, and after the call no Error
\* arises and the caller does not return, the next statement of that block is
\* evaluated.
C4_ReturnEndsOnlyTheCall ==
  (Evaluated /\ ~IsPanic(out.v)) =>
    \A k \in 1..Len(Events) :
      (IsReturn(k) /\ Events[k].act # 0) =>
        /\ ExitsWith(Events[k].act, k, Events[k].val)
        /\ Events[k].val.type # "RETURN_VALUE"
        /\ \A x \in (k + 1)..Len(Events) :
             ( /\ Events[x].ev = "exit"
               /\ Events[x].act = Events[k].act
               /\ CallerFrame(Events[k].act).i < CallerLen(Events[k].act)
               /\ \A j \in (x + 1)..Len(Events) :
                    /\ Events[j].ev = "eval" => Events[j].v.type # "ERROR"
                    /\ Events[j].ev = "return" =>
                         Events[j].act # Activation(CallOf(Events[k].act).from) )
             => \E j \in (x + 1)..Len(Events) :
                  /\ Events[j].ev = "stmt"
                  /\ Events[j].blk = CallerFrame(Events[k].act).id
                  /\ Events[j].i = CallerFrame(Events[k].act).i + 1

IsReturnValue(obj) == obj.type = "RETURN_VALUE"

\* C7: no ReturnValue is bound in an environment, passed as an argument, an
\* element of an array, a key or a value of a hash, or an operand of a
\* prefix, infix or index operator, and the value of a program is none.
C7_NoReturnValueLeak ==
  Evaluated =>
    /\ ~IsReturnValue(out.v)
    /\ \A e \in 1..Len(out.envs) : \A i \in 1..Len(out.envs[e].store) :
         ~IsReturnValue(out.envs[e].store[i].val)
    /\ \A k \in 1..Len(Events) :
         CASE Events[k].ev = "let" -> ~IsReturnValue(Events[k].val)
           [] Events[k].ev = "args" ->
                \A i \in 1..Len(Events[k].args) : ~IsReturnValue(Events[k].args[i])
           [] Events[k].ev = "array" ->
                \A i \in 1..Len(Events[k].elements) : ~IsReturnValue(Events[k].elements[i])
           [] Events[k].ev = "pair" ->
                ~IsReturnValue(Events[k].key) /\ ~IsReturnValue(Events[k].value)
           [] Events[k].ev = "prefix" -> ~IsReturnValue(Events[k].right)
           [] Events[k].ev = "infix" ->
                ~IsReturnValue(Events[k].left) /\ ~IsReturnValue(Events[k].right)
           [] Events[k].ev = "index" ->
                ~IsReturnValue(Events[k].left) /\ ~IsReturnValue(Events[k].index)
           [] OTHER -> TRUE

(***************************************************************************)
(* The infix operators.                                                    *)
(***************************************************************************)
Applied == pc = "applied"

\* the quotient of a by b # 0 truncated toward zero: a = q * b + r with r of
\* the sign of a and smaller than b in absolute value
RefQuo(a, b) ==
  CHOOSE q \in -(IF a < 0 THEN -a ELSE a)..(IF a < 0 THEN -a ELSE a) :
    \E r \in -(IF a < 0 THEN -a ELSE a)..(IF a < 0 THEN -a ELSE a) :
      /\ a = q * b + r
      /\ r * r < b * b
      /\ r = 0 \/ (r < 0) = (a < 0)

RefBool(b) == IF b THEN TrueObj ELSE FalseObj
RefError(what, operator, left, right) ==
  newError(what \o ": " \o left.type \o " " \o operator \o " " \o right.type)

\* the result in the order of the rules: two integers, two strings, == and
\* !=, different types, anything else
RefInfix(operator, left, right) ==
  IF left.type = "INTEGER" /\ right.type = "INTEGER"
  THEN CASE operator = "+" -> Integer(left.Value + right.Value)
         [] operator = "-" -> Integer(left.Value - right.Value)
         [] operator = "*" -> Integer(left.Value * right.Value)
         [] operator = "/" -> Integer(RefQuo(left.Value, right.Value))
         [] operator = "<" -> RefBool(left.Value < right.Value)
         [] operator = ">" -> RefBool(left.Value > right.Value)
         [] operator = "==" -> RefBool(left.Value = right.Value)
         [] operator = "!=" -> RefBool(left.Value # right.Value)
  ELSE IF left.type = "STRING" /\ right.type = "STRING"
  THEN IF operator = "+" THEN StringObj(left.Value \o right.Value)
       ELSE RefError("unknown operator", operator, left, right)
  ELSE IF operator = "==" THEN RefBool(left.id = right.id)
  ELSE IF operator = "!=" THEN RefBool(left.id # right.id)
  ELSE IF left.type # right.type THEN RefError("type mismatch", operator, left, right)
  ELSE RefError("unknown operator", operator, left, right)

DividesByZero ==
  /\ out.operator = "/"
  /\ out.left.type = "INTEGER"
  /\ out.right.type = "INTEGER"
  /\ out.right.Value = 0

IsIf(k) == Events[k].ev = "if"

\* obj is neither FALSE nor NULL
NeitherFalseNorNull(obj) ==
  /\ obj.type # "NULL"
  /\ ~(obj.type = "BOOLEAN" /\ obj.Value = FALSE)

\* the events at which Eval of the if-expression of event k returned
Closes(k) ==
  {c \in (k + 1)..Len(Events) : /\ Events[c].ev = "eval"
                                /\ Events[c].kind = "IfExpression"
                                /\ Events[c].depth = Events[k].depth}
Close(k) == CHOOSE c \in Closes(k) : \A d \in Closes(k) : c <= d

\* the blocks the if-expression of event k evaluated itself
Branches(k) ==
  {j \in (k + 1)..(Close(k) - 1) : /\ Events[j].ev = "eval"
                                   /\ Events[j].kind = "BlockStatement"
                                   /\ Events[j].depth = Events[k].depth}

\* the if-expression of event k evaluated the block branch and no other, and
\* its value is the value of that block
TookOnly(k, branch) ==
  /\ Cardinality(Branches(k)) = 1
  /\ \A j \in Branches(k) : /\ String(Events[j].node) = String(branch)
                            /\ Same(Events[Close(k)].v, Events[j].v)

\* C11: an if-expression whose condition is neither FALSE nor NULL evaluates
\* its consequence and nothing else; otherwise it evaluates its alternative
\* and nothing else when there is one, and yields NULL without evaluating a
\* block when there is none.
C11_IfBranches ==
  (Evaluated /\ ~IsPanic(out.v)) =>
    \A k \in 1..Len(Events) :
      IsIf(k) =>
        /\ Closes(k) # {}
        /\ IF NeitherFalseNorNull(Events[k].condition)
           THEN TookOnly(k, Events[k].ie.Consequence)
           ELSE IF Events[k].ie.Alternative # Nil
           THEN TookOnly(k, Events[k].ie.Alternative)
           ELSE Branches(k) = {} /\ Same(Events[Close(k)].v, NULL)

\* the integer 0 and the empty string were conditions that chose the
\* consequence, and a condition NULL chose the alternative
C11_Witness ==
  /\ Evaluated
  /\ \/ src = "if (0) { 1 } else { 2 }" /\ IsInteger(out.v, 1)
     \/ src = "if (\"\") { 1 } else { 2 }" /\ IsInteger(out.v, 1)
     \/ src = "if (if (false) { 1 }) { 2 } else { 3 }" /\ IsInteger(out.v, 3)
  /\ \E k \in 1..Len(Events) : IsIf(k) /\ Events[k].ie.Alternative # Nil

(***************************************************************************)
(* Hash keys.                                                              *)
(***************************************************************************)
\* obj is an Integer, a Boolean or a String
IsKeyValue(obj) == obj.type \in {"INTEGER", "BOOLEAN", "STRING"}

Unusable(obj, key) ==
  /\ obj.type = "ERROR"
  /\ obj.Message = "unusable as hash key: " \o key.type

\* a and b are of the same type and value
SameTypeAndValue(a, b) == a.type = b.type /\ a.Value = b.Value

\* the pairs of hash whose key is of the type and value of key
Stored(hash, key) ==
  {i \in 1..Len(hash.Pairs) : SameTypeAndValue(hash.Pairs[i].Key, key)}

\* C13: a key of a hash literal, or an index of a hash, that is no Integer,
\* Boolean or String gives the error unusable as hash key with the type of
\* the key, and a key that is one does not; indexing a hash with such a key
\* gives the value stored under the key of the same type and value, and NULL
\* when the hash has no such key.
C13_HashKeys ==
  Evaluated =>
    \A k \in 1..(Len(Events) - 1) :
      /\ (Events[k].ev = "key" /\ Events[k].key.type # "nil") =>
           (~IsKeyValue(Events[k].key)
              <=> /\ Events[k + 1].ev = "eval"
                  /\ Events[k + 1].kind = "HashLiteral"
                  /\ Unusable(Events[k + 1].v, Events[k].key))
      /\ (Events[k].ev = "index" /\ Events[k].left.type = "HASH"
            /\ Events[k].index.type # "nil") =>
           /\ Events[k + 1].ev = "eval"
           /\ Events[k + 1].kind = "IndexExpression"
           /\ IF ~IsKeyValue(Events[k].index)
              THEN Unusable(Events[k + 1].v, Events[k].index)
              ELSE IF Stored(Events[k].left, Events[k].index) = {}
              THEN Same(Events[k + 1].v, NULL)
              ELSE \E i \in Stored(Events[k].left, Events[k].index) :
                     Same(Events[k + 1].v, Events[k].left.Pairs[i].Value)

(***************************************************************************)
(* Indexing an array.                                                      *)
(***************************************************************************)
Indexed == pc = "indexed"

\* C12: an array of n elements indexed with the integer i gives its element
\* at position i when 0 <= i <= n - 1 and NULL otherwise, and never an
\* error.
C12_ArrayIndex ==
  (Indexed /\ out.left.type = "ARRAY" /\ out.index.type = "INTEGER") =>
    /\ IF 0 <= out.index.Value /\ out.index.Value <= Len(out.left.Elements) - 1
       THEN Same(out.result, out.left.Elements[out.index.Value + 1])
       ELSE Same(out.result, NULL)
    /\ out.result.type # "ERROR"
    /\ ~IsPanic(out.result)

\* an array of three elements was indexed below 0, at its last position and
\* past it
C12_Witness ==
  /\ Indexed
  /\ out.left.type = "ARRAY"
  /\ Len(out.left.Elements) = 3
  /\ out.index.type = "INTEGER"
  /\ \/ out.index.Value = -1 /\ Same(out.result, NULL)
     \/ out.index.Value = 2 /\ Same(out.result, out.left.Elements[3])
     \/ out.index.Value = 3 /\ Same(out.result, NULL)

(***************************************************************************)
(* Identifiers.                                                            *)
(***************************************************************************)
\* the scopes of scopes, innermost first, that bind name
Binding(scopes, name) ==
  {s \in 1..Len(scopes) : \E i \in 1..Len(scopes[s]) : scopes[s][i].name = name}

\* the value name is bound to in the scope store
BoundTo(store, name) == store[CHOOSE i \in 1..Len(store) : store[i].name = name].val

IsBuiltinName(name) == \E i \in 1..Len(BuiltinNames) : BuiltinNames[i] = name

\* C14: an identifier evaluates to its binding in the innermost scope of the
\* environment chain that binds it; when no scope binds it, to the built-in
\* function of that name; and when there is none, to the error identifier
\* not found.  So a let of the name of a built-in function hides it, and an
\* inner binding hides an outer one.
C14_IdentifierLookup ==
  Evaluated =>
    \A k \in 1..(Len(Events) - 1) :
      Events[k].ev = "ident" =>
        /\ Events[k + 1].ev = "eval"
        /\ Events[k + 1].kind = "Identifier"
        /\ IF Binding(Events[k].scopes, Events[k].name) # {}
           THEN \E s \in Binding(Events[k].scopes, Events[k].name) :
                  /\ \A t \in Binding(Events[k].scopes, Events[k].name) : s <= t
                  /\ Same(Events[k + 1].v, BoundTo(Events[k].scopes[s], Events[k].name))
           ELSE IF IsBuiltinName(Events[k].name)
           THEN /\ Events[k + 1].v.type = "BUILTIN"
                /\ Same(Events[k + 1].v, BuiltinObj(Events[k].name))
           ELSE /\ Events[k + 1].v.type = "ERROR"
                /\ Events[k + 1].v.Message = "identifier not found: " \o Events[k].name

\* len was bound by a let and was 5, or a parameter x hid the x of the
\* program
C14_Witness ==
  /\ Evaluated
  /\ \/ src = "let len = 5; len" /\ IsInteger(out.v, 5)
     \/ src = "let x = 1; fn(x) { x }(2)" /\ IsInteger(out.v, 2)
  /\ \E k \in 1..Len(Events) :
       /\ Events[k].ev = "ident"
       /\ Binding(Events[k].scopes, Events[k].name) # {}
       /\ \/ IsBuiltinName(Events[k].name)
          \/ Cardinality(Binding(Events[k].scopes, Events[k].name)) = 2

(***************************************************************************)
(* Calls with another number of arguments than parameters.                 *)
(***************************************************************************)
OutOfRange(obj) == IsPanic(obj) /\ obj.Message = "runtime error: index out of range"

\* the k-th event is the call of a function with these arguments
IsApply(k) == Events[k].ev = "args" /\ Events[k].fn.type = "FUNCTION"

\* store binds the parameters params to the first arguments of args, and
\* nothing else
BindsFirst(store, params, args) ==
  /\ \A i \in 1..Len(store) : \E p \in 1..Len(params) : store[i].name = params[p].Value
  /\ \A p \in 1..Len(params) :
       (\A q \in (p + 1)..Len(params) : params[q].Value # params[p].Value) =>
         \E i \in 1..Len(store) : /\ store[i].name = params[p].Value
                                  /\ Same(store[i].val, args[p])

\* C15: a call of a function with more or fewer arguments than parameters
\* does not crash: the evaluation does not end in an index out of range, the
\* body is evaluated in an environment that binds the parameters to the
\* first arguments, and the call returns to its caller.
C15_ArityMismatch ==
  Evaluated =>
    /\ ~OutOfRange(out.v)
    /\ \A k \in 1..Len(Events) :
         (IsApply(k) /\ Len(Events[k].args) > Len(Events[k].fn.Parameters)) =>
           /\ k < Len(Events)
           /\ Events[k + 1].ev = "call"
           /\ BindsFirst(Events[k + 1].store, Events[k].fn.Parameters, Events[k].args)
           /\ IsPanic(out.v) \/ \E j \in (k + 2)..Len(Events) :
                                  Events[j].ev = "exit" /\ Events[j].act = Events[k + 1].env

(***************************************************************************)
(* Integer division.                                                       *)
(***************************************************************************)
IsDivision ==
  /\ Applied
  /\ out.operator = "/"
  /\ out.left.type = "INTEGER"
  /\ out.right.type = "INTEGER"

\* C16: a / b on two integers is the quotient truncated toward zero when
\* b # 0, and with b = 0 evalInfixExpression still returns: a value or an
\* Error, no panic.
C16_IntegerDivision ==
  IsDivision =>
    /\ ~IsPanic(out.result)
    /\ out.right.Value # 0 =>
         /\ out.result.type = "INTEGER"
         /\ out.result.Value = RefQuo(out.left.Value, out.right.Value)

(***************************************************************************)
(* What the parser accepts: hash literals, let statements and function     *)
(* literals.                                                               *)
(***************************************************************************)
\* a comma is followed at once by a closing brace
CommaBeforeBrace(ts) ==
  \E i \in 1..(Len(ts) - 1) : ts[i].Type = "COMMA" /\ ts[i + 1].Type = "RBRACE"

RECURSIVE HasHashLiteral(_)
HasHashLiteral(n) ==
  \/ n.kind = "HashLiteral"
  \/ \E i \in 1..Len(PartsOf(n)) : HasHashLiteral(PartsOf(n)[i])

TrailingCommaInputs == {"{1: 2,}", "{1: 2, 3: 4,}", "{\"a\": 1,}", "let h = {1: 2,};"}

\* C17: a comma before the closing brace of a hash literal is a parser
\* error: an input in which a comma is followed at once by a closing brace has an
\* error, a hash literal with such a comma yields no HashLiteral, and the
\* literal without pairs is accepted.
C17_NoTrailingComma ==
  Parsed =>
    /\ CommaBeforeBrace(Tokens(src)) => parsed.errors # <<>>
    /\ src \in TrailingCommaInputs => ~HasHashLiteral(parsed.program)
    /\ src = "{}" => /\ parsed.errors = <<>>
                     /\ Len(parsed.program.Statements) = 1
                     /\ parsed.program.Statements[1].Expression.kind = "HashLiteral"
                     /\ parsed.program.Statements[1].Expression.Pairs = <<>>

\* C18: for a program parsed without errors, the text S that String() gives
\* for it parses without errors, and String() of that second program is S
\* again.
C18_StringRoundTrip ==
  pc = "reparsed" => out.errors = <<>> /\ out.again = out.s

\* every let statement below n is there and has a name, and every function
\* literal below n has a block as its body
RECURSIVE LetsAndFunctionsWhole(_)
LetsAndFunctionsWhole(n) ==
  /\ n.kind # TypedNilLet.kind
  /\ n.kind = "LetStatement" => n.Name # Nil /\ n.Name.kind = "Identifier"
  /\ n.kind = "FunctionLiteral" => n.Body # Nil /\ n.Body.kind = "BlockStatement"
  /\ \A i \in 1..Len(PartsOf(n)) : LetsAndFunctionsWhole(PartsOf(n)[i])

\* C19: in the program ParseProgram returns, for any input, every let
\* statement is a node that is there and has a name, and every function
\* literal has a body.
C19_LetAndFunctionParts ==
  Parsed => LetsAndFunctionsWhole(parsed.program)

\* every parameter of every function literal below n comes from an IDENT
\* token
RECURSIVE ParametersAreIdentifiers(_)
ParametersAreIdentifiers(n) ==
  /\ n.kind = "FunctionLiteral" =>
       \A i \in 1..Len(n.Parameters) : n.Parameters[i].Token.Type = "IDENT"
  /\ \A i \in 1..Len(PartsOf(n)) : ParametersAreIdentifiers(PartsOf(n)[i])

\* C20: every parameter of a function literal the parser makes comes from
\* an IDENT token, a parameter list with another token is a parser error,
\* and the empty list is accepted.
C20_ParametersAreIdentifiers ==
  Parsed =>
    /\ ParametersAreIdentifiers(parsed.program)
    /\ src \in {"fn(1, 2) {}", "fn(a, 1) {}", "fn(fn) {}", "fn(,) {}", "fn(\"a\") { 1 }"}
         => parsed.errors # <<>>
    /\ src = "fn() {}" => /\ parsed.errors = <<>>
                          /\ parsed.program.Statements[1].Expression.kind = "FunctionLiteral"
                          /\ parsed.program.Statements[1].Expression.Parameters = <<>>

\* the index of the first character of input at or after i that is not
\* white space; Len(input) when there is none
RECURSIVE FirstNonSpace(_, _)
FirstNonSpace(input, i) ==
  IF i < Len(input) /\ At(input, i) \in {" ", "\t", "\n", "\r"}
  THEN FirstNonSpace(input, i + 1)
  ELSE i

\* the call of NextToken of this step starts at a `=` or a `!`: followed by
\* `=` it returns EQ or NOT_EQ with both characters and moves on by two
\* characters, otherwise ASSIGN or BANG with one and moves on by one
OperatorStep ==
  \A p \in {FirstNonSpace(src, lx.position)} :
    (p < Len(src) /\ At(src, p) \in {"=", "!"}) =>
      IF p + 1 < Len(src) /\ At(src, p + 1) = "="
      THEN /\ toks' = Append(toks, [Type |-> IF At(src, p) = "=" THEN "EQ" ELSE "NOT_EQ",
                                    Literal |-> At(src, p) \o "="])
           /\ lx'.position = p + 2
      ELSE /\ toks' = Append(toks, [Type |-> IF At(src, p) = "=" THEN "ASSIGN" ELSE "BANG",
                                    Literal |-> At(src, p)])
           /\ lx'.position = p + 1

\* C21: `=` followed at once by `=` gives one EQ token `==`, `!` followed at
\* once by `=` gives one NOT_EQ token `!=`, each consuming two characters; any
\* other `=` or `!` gives ASSIGN or BANG and consumes one character.
C21_TwoCharOperators == [][OperatorStep]_vars

\* `===` has been lexed as EQ, ASSIGN
C21_Witness ==
  /\ src = "==="
  /\ Len(toks) = 2
  /\ toks[1] = [Type |-> "EQ", Literal |-> "=="]
  /\ toks[2] = [Type |-> "ASSIGN", Literal |-> "="]

\* the index of the first `"` of input at or after i; Len(input) when there
\* is none
RECURSIVE NextQuote(_, _)
NextQuote(input, i) ==
  IF i < Len(input) /\ At(input, i) # "\"" THEN NextQuote(input, i + 1) ELSE i

\* the call of NextToken of this step starts at a `"`: it returns a STRING
\* token with the text up to the next `"`, or with all the text that is left
\* when there is none, and then the next token is EOF and the parser, given
\* such a string alone, records no error
StringStep ==
  \A p \in {FirstNonSpace(src, lx.position)} :
    (p < Len(src) /\ At(src, p) = "\"") =>
      \A q \in {NextQuote(src, p + 1)} :
        /\ toks' = Append(toks, [Type |-> "STRING", Literal |-> Slice(src, p + 1, q)])
        /\ q = Len(src) => /\ NextToken(lx').tok = [Type |-> "EOF", Literal |-> ""]
                           /\ toks = <<>> => Parse(src).p.errors = <<>>

\* C22: the literal of a string token is the text between the opening quote
\* and the next `"`; when the input ends before a closing quote the token is
\* still a STRING with all the text after the opening quote, the next token is
\* EOF, and the parser records no error.
C22_StringTokens == [][StringStep]_vars

\* the call of NextToken of this step returns EOF after an earlier EOF, and
\* when it returns EOF its literal is empty and the lexer has gone through
\* the whole input
EOFStep ==
  \A tok \in {toks'[Len(toks')]} :
    /\ (toks # <<>> /\ toks[Len(toks)].Type = "EOF") => tok.Type = "EOF"
    /\ tok.Type = "EOF" => /\ tok.Literal = ""
                           /\ lx'.position >= Len(src)

\* C29: once NextToken has returned EOF every later call returns EOF, and
\* EOF is returned only when every byte of the input has been consumed.
C29_EOFAbsorbing == [][EOFStep]_vars

\* the number a string of digits denotes in base 10
Decimal(ds) == DigitsValue(ds, 10, 0)

\* the number ds denotes in base 10 is at most the largest int64
InInt64(ds) == ~Above(Significant(ds), MaxInt64)

\* every integer literal below n has the base-10 value of its token
RECURSIVE IntegersAreDecimal(_)
IntegersAreDecimal(n) ==
  /\ n.kind = "IntegerLiteral" => n.Value = Decimal(n.Token.Literal)
  /\ \A i \in 1..Len(PartsOf(n)) : IntegersAreDecimal(PartsOf(n)[i])

CouldNotParse(ds) == "could not parse \"" \o ds \o "\" as integer"

\* C30: an INT token whose digits denote a number within int64 becomes an
\* IntegerLiteral with the base-10 value of the digits, leading zeros
\* included, and `could not parse ... as integer` is recorded only for digits
\* that denote a number outside int64.
C30_IntegerValue ==
  Parsed =>
    \A ts \in {Tokens(src)} :
      /\ IntegersAreDecimal(parsed.program)
      /\ \A i \in 1..Len(ts) :
           (ts[i].Type = "INT" /\ InInt64(ts[i].Literal)) =>
             \A j \in 1..Len(parsed.errors) : parsed.errors[j] # CouldNotParse(ts[i].Literal)
      /\ (Len(ts) = 1 /\ ts[1].Type = "INT") =>
           IF InInt64(ts[1].Literal)
           THEN /\ parsed.errors = <<>>
                /\ Len(parsed.program.Statements) = 1
                /\ parsed.program.Statements[1].Expression.kind = "IntegerLiteral"
           ELSE parsed.errors = <<CouldNotParse(ts[1].Literal)>>

(***************************************************************************)
(* The evaluator: values, scopes and order.                                *)
(***************************************************************************)
Variants == {"INTEGER", "BOOLEAN", "NULL", "RETURN_VALUE", "ERROR", "FUNCTION", "STRING",
             "BUILTIN", "ARRAY", "HASH"}

ExpressionKinds == {"Identifier", "IntegerLiteral", "Boolean", "StringLiteral",
                    "PrefixExpression", "InfixExpression", "IfExpression", "FunctionLiteral",
                    "CallExpression", "ArrayLiteral", "IndexExpression", "HashLiteral"}

\* C23: Eval of a program parsed without errors, and of each expression
\* node of it, returns a value of one of the ten variants, never nothing:
\* also for a program that ends in a let, an if whose chosen block is
\* empty, and a call of a function with an empty body.
C23_AlwaysAValue ==
  (Evaluated /\ ~IsPanic(out.v)) =>
    /\ out.v.type \in Variants
    /\ \A k \in 1..Len(Events) :
         (Events[k].ev = "eval" /\ Events[k].kind \in ExpressionKinds \cup {"Program"})
           => Events[k].v.type \in Variants

\* the environment in which the statements of the call act run: the one the
\* call made, and the program's for no call
ScopeOf(act) == IF act = 0 THEN 1 ELSE act

\* envs b is envs a with name bound to val in environment env and nothing
\* else changed
OnlyBinds(a, b, env, name, val) ==
  /\ Len(b) = Len(a)
  /\ \A e \in 1..Len(a) : e # env => b[e] = a[e]
  /\ b[env].outer = a[env].outer
  /\ \E i \in 1..Len(b[env].store) :
       /\ b[env].store[i].name = name
       /\ Same(b[env].store[i].val, val)
       /\ \A j \in 1..Len(b[env].store) : j # i =>
            \E h \in 1..Len(a[env].store) : a[env].store[h] = b[env].store[j]
  /\ \A h \in 1..Len(a[env].store) :
       a[env].store[h].name # name =>
         \E j \in 1..Len(b[env].store) : b[env].store[j] = a[env].store[h]

\* C24: a let writes to the innermost scope only: during a call to the
\* environment the call made, leaving every other environment as it was, the
\* captured one and the caller's included; the parameters of a call are bound
\* in the new environment only; and a block of an if makes no environment, so
\* a let in it writes to the environment the if is evaluated in.
C24_LetInnermost ==
  Evaluated =>
    /\ \A k \in 1..Len(Events) :
         Events[k].ev = "let" =>
           /\ Events[k].env = ScopeOf(Events[k].act)
           /\ OnlyBinds(Events[k].before, Events[k].after, Events[k].env,
                        Events[k].name, Events[k].val)
    /\ \A k \in 1..Len(Events) :
         Events[k].ev = "call" =>
           /\ Len(Events[k].after) = Len(Events[k].before) + 1
           /\ Events[k].env = Len(Events[k].after)
           /\ \A e \in 1..Len(Events[k].before) : Events[k].after[e] = Events[k].before[e]
    /\ Len(out.envs) =
         1 + Cardinality({k \in 1..Len(Events) : Events[k].ev = "call"})
    /\ src = "if (true) { let a = 1; }; a" => IsInteger(out.v, 1)
    /\ src = "let a = 1; if (true) { let a = 2; }; a" => IsInteger(out.v, 2)
    /\ src = "let a = 1; fn() { let a = 2; }(); a" => IsInteger(out.v, 1)
    /\ src = "let a = 1; let f = fn(a) { let a = 3; a }; f(2); a" => IsInteger(out.v, 1)

\* a let in the body of a call wrote a to the environment of the call, the
\* a of the program kept its value, and a let in the block of an if wrote to
\* the environment of the call around it
C24_Witness ==
  /\ Evaluated
  /\ src = "let a = 1; let f = fn() { if (true) { let a = 5; }; a }; f() + a"
  /\ IsInteger(out.v, 6)
  /\ \E k \in 1..Len(Events) :
       /\ Events[k].ev = "let"
       /\ Events[k].env = 2
       /\ Events[k].name = "a"
       /\ IsInteger(Get(Events[k].after, 1, "a").obj, 1)
       /\ IsInteger(Get(Events[k].after, 2, "a").obj, 5)

IsErrorAt(k) == Events[k].ev = "eval" /\ Events[k].v.type = "ERROR"
BindsAt(k) == Events[k].ev \in {"let", "call"}

\* the environments after the events before the k-th: those the last let or
\* call before it left, and the new environment of the program when there is
\* none
EnvsBefore(k) ==
  IF \E j \in 1..(k - 1) : BindsAt(j)
  THEN Events[CHOOSE j \in 1..(k - 1) :
                BindsAt(j) /\ \A h \in (j + 1)..(k - 1) : ~BindsAt(h)].after
  ELSE <<NewEnvironment>>

\* C25: a let whose value is an Error binds nothing and changes no binding,
\* and after the first statement that yields an Error no statement is
\* evaluated: the environments after Eval are those the statements before the
\* failing one left.
C25_ErrorLeavesBindings ==
  Evaluated =>
    /\ \A k \in 1..Len(Events) :
         (IsErrorAt(k) /\ \A j \in 1..(k - 1) : ~IsErrorAt(j)) =>
           /\ \A j \in (k + 1)..Len(Events) : Events[j].ev \notin {"let", "call", "stmt"}
           /\ out.envs = EnvsBefore(k)
    /\ \A k \in 1..Len(Events) :
         (Events[k].ev = "eval" /\ Events[k].kind = "LetStatement"
            /\ Events[k].v.type = "ERROR") =>
              \A j \in 1..(k - 1) :
                (Events[j].ev = "let" /\ Events[j].name = Events[k].node.Name.Value
                   /\ Events[j].env = Events[k].env)
                  => \E i \in 1..Len(out.envs[Events[k].env].store) :
                       /\ out.envs[Events[k].env].store[i].name = Events[j].name
                       /\ \/ Same(out.envs[Events[k].env].store[i].val, Events[j].val)
                          \/ \E h \in (j + 1)..(k - 1) :
                               /\ Events[h].ev = "let"
                               /\ Events[h].name = Events[j].name
                               /\ Events[h].env = Events[j].env
    /\ src = "let a = 1; let b = foo; let c = 3;" =>
         /\ Len(out.envs[1].store) = 1
         /\ out.envs[1].store[1].name = "a"
    /\ src = "let a = 1; let a = foo; a" =>
         /\ out.v.type = "ERROR"
         /\ IsInteger(Get(out.envs, 1, "a").obj, 1)

\* the second let of the program failed: a is bound, b and c are not
C25_Witness ==
  /\ Evaluated
  /\ src = "let a = 1; let b = foo; let c = 3;"
  /\ out.v.type = "ERROR"
  /\ out.v.Message = "identifier not found: foo"
  /\ Len(out.envs) = 1
  /\ Len(out.envs[1].store) = 1
  /\ IsInteger(Get(out.envs, 1, "a").obj, 1)
  /\ ~Get(out.envs, 1, "b").ok
  /\ ~Get(out.envs, 1, "c").ok

IsEval(k) == Events[k].ev = "eval"

\* the calls of Eval made one after the other from the trace's position s
\* on, before the k-th event: the last call that began at s, then the last
\* that began where that one ended, and so on
RECURSIVE Chain(_, _)
Chain(s, k) ==
  IF \E e \in (s + 1)..(k - 1) : IsEval(e) /\ Events[e].start = s
  THEN Only({ <<c>> \o Chain(c, k)
              : c \in {CHOOSE e \in (s + 1)..(k - 1) :
                         /\ IsEval(e) /\ Events[e].start = s
                         /\ \A h \in (e + 1)..(k - 1) : ~(IsEval(h) /\ Events[h].start = s)} })
  ELSE <<>>

\* the sub-expressions of a call, an array literal or an infix expression in
\* the order of the source, and the event that follows their evaluation
Operands(node) ==
  CASE node.kind = "CallExpression" -> <<node.Function>> \o node.Arguments
    [] node.kind = "ArrayLiteral" -> node.Elements
    [] node.kind = "InfixExpression" -> <<node.Left, node.Right>>

AppliedEvent(node) ==
  CASE node.kind = "CallExpression" -> "args"
    [] node.kind = "ArrayLiteral" -> "array"
    [] node.kind = "InfixExpression" -> "infix"

\* the k-th event is Eval of a call, an array literal or an infix expression:
\* its sub-expressions were evaluated from left to right up to the first
\* that gave an Error, which is the result; without an Error all of them
\* were, and then the function or operator was applied
InOrder(k) ==
  \A ch \in {Chain(Events[k].start, k)} : \A ops \in {Operands(Events[k].node)} :
    /\ Len(ch) <= Len(ops)
    /\ \A i \in 1..Len(ch) :
         /\ Events[ch[i]].node = ops[i]
         /\ Events[ch[i]].env = Events[k].env
         /\ i < Len(ch) => ~Stops(Events[ch[i]].v)
    /\ IF ch # <<>> /\ Stops(Events[ch[Len(ch)]].v)
       THEN /\ k = ch[Len(ch)] + 1
            /\ Events[k].v = Events[ch[Len(ch)]].v
       ELSE /\ Len(ch) = Len(ops)
            /\ Events[(IF ch = <<>> THEN Events[k].start ELSE ch[Len(ch)]) + 1].ev
                 = AppliedEvent(Events[k].node)

\* C26: the callee of a call is evaluated before the arguments, the
\* arguments and the elements of an array literal from left to right, the
\* left operand of an infix expression before the right; at the first Error
\* the others are not evaluated and nothing is applied, so the Error is that
\* of the leftmost failing sub-expression.
C26_LeftToRight ==
  Evaluated =>
    /\ \A k \in 1..Len(Events) :
         (IsEval(k) /\ Events[k].kind \in {"CallExpression", "ArrayLiteral", "InfixExpression"})
           => InOrder(k)
    /\ src = "let f = fn(a, b, c) { a }; f(1, foo, bar)" =>
         out.v.type = "ERROR" /\ out.v.Message = "identifier not found: foo"

\* the second argument of the call failed: the callee, the first and the
\* second argument were evaluated, the third was not, and f was not called
C26_Witness ==
  /\ Evaluated
  /\ src = "let f = fn(a, b, c) { a }; f(1, foo, bar)"
  /\ out.v.type = "ERROR"
  /\ out.v.Message = "identifier not found: foo"
  /\ \E k \in 1..Len(Events) :
       /\ IsEval(k)
       /\ Events[k].kind = "CallExpression"
       /\ Len(Chain(Events[k].start, k)) = 3
  /\ \A k \in 1..Len(Events) :
       /\ Events[k].ev # "call"
       /\ Events[k].ev = "ident" => Events[k].name # "bar"

(***************************************************************************)
(* The evaluator: lines evaluated on one environment.                      *)
(***************************************************************************)
\* the environments when the k-th event of trace happened, in an evaluation
\* that began with the environments from
EnvsAt(trace, k, from) ==
  IF \E j \in 1..(k - 1) : trace[j].ev \in {"let", "call"}
  THEN trace[CHOOSE j \in 1..(k - 1) :
               /\ trace[j].ev \in {"let", "call"}
               /\ \A h \in (j + 1)..(k - 1) : trace[h].ev \notin {"let", "call"}].after
  ELSE from

\* the i-th line was evaluated and its value is the integer value
LineIs(i, line, value) ==
  /\ out.lines[i].line = line
  /\ out.lines[i].ran
  /\ IsInteger(out.lines[i].v, value)

\* C27: a closure shares the environment it captured: every lookup in the
\* body of a call sees, around the environment of the call, the captured
\* environment as it is at that moment, with the bindings added after the
\* function literal was evaluated and those of earlier evaluations on the
\* same environment; so a function bound by let can call itself, and a line
\* sees the bindings of the lines before it.
C27_SharedEnvironment ==
  pc = "repl" =>
    \A i \in 1..Len(out.lines) :
      out.lines[i].ran =>
        /\ \A k \in 1..Len(out.lines[i].trace) :
             \A ev \in {out.lines[i].trace[k]} :
               /\ ev.ev = "ident" =>
                    ev.scopes = Scopes(EnvsAt(out.lines[i].trace, k, out.lines[i].from), ev.env)
               /\ ev.ev = "call" =>
                    /\ ev.fn.Env # 0
                    /\ ev.after[ev.env].outer = ev.fn.Env
                    /\ ev.before = EnvsAt(out.lines[i].trace, k, out.lines[i].from)
        /\ out.lines[i].from = IF i = 1 THEN <<NewEnvironment>>
                               ELSE EnvsAt(out.lines[i - 1].trace,
                                           Len(out.lines[i - 1].trace) + 1,
                                           out.lines[i - 1].from)
        /\ out.lines[i].line = "let k = fn() { y }; let y = 7; k()"
             => IsInteger(out.lines[i].v, 7)
        /\ (i > 1 /\ out.lines[i].line = "f(1)"
              /\ \E j \in 1..(i - 1) :
                   out.lines[j].line = "let f = fn(n) { if (n < 1) { 0 } else { f(n - 1) } };")
             => IsInteger(out.lines[i].v, 0)
        /\ (i > 1 /\ out.lines[i].line = "x" /\ out.lines[i - 1].line = "let x = 5;")
             => IsInteger(out.lines[i].v, 5)
        /\ (i > 2 /\ out.lines[i].line = "g()" /\ out.lines[i - 1].line = "let x = 5;"
              /\ out.lines[i - 2].line = "let g = fn() { x };")
             => IsInteger(out.lines[i].v, 5)

\* g was defined on one line, x bound on the next, and the call of g on the
\* third line saw x
C27_Witness ==
  /\ pc = "repl"
  /\ Len(out.lines) = 3
  /\ out.lines[1].line = "let g = fn() { x };"
  /\ out.lines[2].line = "let x = 5;"
  /\ LineIs(3, "g()", 5)
  /\ \E k \in 1..Len(out.lines[3].trace) :
       /\ out.lines[3].trace[k].ev = "ident"
       /\ out.lines[3].trace[k].name = "x"
       /\ out.lines[3].trace[k].env = 2

(***************************************************************************)
(* The evaluator: the order of the pairs of a hash literal.                *)
(***************************************************************************)
\* the key-to-value mapping of a Hash, keys and values as Inspect() shows them
Mapping(hash) ==
  {<<hash.Pairs[i].Key.type, Inspect(hash.Pairs[i].Key), Inspect(hash.Pairs[i].Value)>>
     : i \in 1..Len(hash.Pairs)}

\* two results are the same mapping, the same Error or the same value
SameResult(a, b) ==
  /\ a.type = b.type
  /\ CASE a.type = "HASH" -> Mapping(a) = Mapping(b)
       [] a.type \in {"INTEGER", "STRING", "BOOLEAN", "ERROR", "panic", "NULL", "nil"}
            -> SameValue(a, b)
       [] OTHER -> TRUE

\* C28: the result of evaluating a hash literal, the mapping or the Error,
\* is the same for every order in which its pairs are iterated: of two
\* pairs with the same HashKey the later in the source wins, and of
\* several failing pairs the Error of the earliest in the source is returned.
C28_HashOrderIndependent ==
  Evaluated =>
    /\ \A perm \in Perms(MaxPairs) :
         SameResult(out.v, Eval(parsed.program, 1, NewState(perm)).v)
    /\ src = "{1: 2, 1: 3}[1]" => IsInteger(out.v, 3)
    /\ src = "{foo: 1, bar: 2}" => out.v.Message = "identifier not found: foo"

====
